---- MODULE Spec2Model ----
(***************************************************************************)
(* State-machine model of grizli's redshift / template fitting engine      *)
(* (src/grizli/fitting.py, class GroupFitter, and src/grizli/utils.py).    *)
(*                                                                         *)
(* Units.  Fluxes (scif, flam, eflam, pedestal, background coefficients)   *)
(* are integers in hundredths: 0.04 is 4, 0.05 is 5.  An inverse sigma     *)
(* (sivarf) is a rational <<num, den>>; den = 0 stands for a non-finite    *)
(* value (1/0).  A returned coefficient is <<m, e>>, the number            *)
(* m * COEFF_SCALE^e, so that multiplying by COEFF_SCALE (1.e-19) is       *)
(* exact.                                                                  *)
(***************************************************************************)
EXTENDS Integers, Sequences, FiniteSets, TLC

VARIABLES
    beams,      \* beams[i]: the flattened boolean fit_mask of exposure i
    scif,       \* concatenated science array (+ photometric fluxes)
    sivarf,     \* concatenated sqrt(ivar), rationals <<num, den>>
    weightf,    \* concatenated pixel weights
    wavef,      \* concatenated wavelengths (+ photometric pivots)
    fit_mask,   \* concatenated boolean mask
    Nphot,      \* number of valid photometric points
    Nmask,      \* fit_mask.sum()
    DoF,        \* int((weightf*fit_mask).sum())
    is_spec,    \* [scalar |-> BOOLEAN, arr |-> boolean array]
    photom,     \* photom_flam / photom_eflam / photom_filters / photom_pivot / tempfilt
    mslices,    \* per-exposure index arrays into the masked arrays (or None)
    A_bgm,      \* masked background matrix, N rows
    pscale,     \* [none |-> BOOLEAN, x |-> coefficients]: none when the
                \* attribute is absent or None
    ret,        \* what the call in progress returned (or that it raised)
    ncalls      \* number of calls the driving script has made

\* the Group's attributes
group == <<beams, scif, sivarf, weightf, wavef, fit_mask, Nphot, Nmask, DoF,
           is_spec, photom, mslices, A_bgm, pscale>>

vars == <<group, ret, ncalls>>

(***************************************************************************)
(* Bounds of the model                                                     *)
(***************************************************************************)
\* longest flam / eflam / filters array handed to set_photometry
MaxPhot == 2
\* number of set_photometry / unset_photometry calls of a driving script
MaxCalls == 2

(***************************************************************************)
(* Sequence helpers (numpy array operations)                               *)
(***************************************************************************)
Max(a, b) == IF a > b THEN a ELSE b

Min(a, b) == IF a < b THEN a ELSE b

RECURSIVE SumSeq(_)
\* np.sum of an integer array
SumSeq(s) == IF s = << >> THEN 0 ELSE Head(s) + SumSeq(Tail(s))

RECURSIVE Flatten(_)
\* np.hstack of a list of arrays
Flatten(ss) == IF ss = << >> THEN << >> ELSE Head(ss) \o Flatten(Tail(ss))

\* (mask).sum() of a boolean array
CountTrue(m) == Cardinality({p \in DOMAIN m : m[p]})

\* arr[:-k] for k > 0 (python slicing: empty when k exceeds the length)
DropLast(arr, k) == SubSeq(arr, 1, Max(0, Len(arr) - k))

\* all sequences over S of length 0..n
SeqsUpTo(S, n) == UNION {[1..k -> S] : k \in 0..n}

\* arr[mask] for a boolean mask of the same length: the kept entries, in order
RECURSIVE Compress(_, _)
Compress(arr, m) ==
    IF arr = << >> \/ m = << >> THEN << >>
    ELSE (IF Head(m) THEN <<Head(arr)>> ELSE << >>) \o Compress(Tail(arr), Tail(m))

\* the element of a set of one element: a value that is computed once
Only(S) == CHOOSE x \in S : TRUE

\* floor(sqrt(n)) for n >= 0
ISqrt(n) == CHOOSE r \in 0..n : r * r <= n /\ (r + 1) * (r + 1) > n

(***************************************************************************)
(* The Group after construction                                            *)
(***************************************************************************)
\* exposure layouts: each a list of per-exposure fit masks (every exposure
\* is a cutout of one row and two wavelength columns)
BeamLayouts ==
    { << <<TRUE, TRUE>> >>,
      << <<TRUE, FALSE>>, <<TRUE, TRUE>> >>,
      << <<FALSE, FALSE>>, <<TRUE, TRUE>> >>,
      << <<FALSE, FALSE>> >> }

\* beam.wave: the wavelength of each column of an exposure
BeamWave == <<12, 24>>

\* self.N
N == Len(beams)

\* self.Ntot: the total number of spectral pixels
Ntot == SumSeq([i \in 1..N |-> Len(beams[i])])

\* the index array, or None, that _get_slices(masked=True) gives exposure i
\* of bm, the indices counted from 1
\* index arrays that all start at x
MaskedSlicesFromX(bm, x) ==
    [i \in DOMAIN bm |->
        [none |-> CountTrue(bm[i]) = 0,
         idx |-> [k \in 1..CountTrue(bm[i]) |-> k + x]]]

RECURSIVE MaskedSlices(_, _)
MaskedSlices(bm, x) ==
    IF bm = << >> THEN << >>
    ELSE IF CountTrue(Head(bm)) = 0
         THEN <<[none |-> TRUE, idx |-> << >>]>> \o MaskedSlices(Tail(bm), x)
         ELSE <<[none |-> FALSE,
                 idx |-> [k \in 1..CountTrue(Head(bm)) |-> k + x]]>>
              \o MaskedSlices(Tail(bm), x + CountTrue(Head(bm)))

\* the slices of _get_slices(masked=False): <<first, last>>, counted from 1
RECURSIVE FullSlices(_, _)
FullSlices(bm, x) ==
    IF bm = << >> THEN << >>
    ELSE <<<<x + 1, x + Len(Head(bm))>>>> \o FullSlices(Tail(bm), x + Len(Head(bm)))

\* _get_slices
GetSlices(bm, masked) == IF masked THEN MaskedSlices(bm, 0) ELSE FullSlices(bm, 0)

\* _init_background(masked=True): A_bg[i, mslices[i]] = 1.  Indexing a row
\* with None (np.newaxis) selects the whole row.
InitBackground(n, nmask, msl) ==
    [i \in 1..n |-> [c \in 1..nmask |->
        IF msl[i].none THEN 1
        ELSE IF \E k \in DOMAIN msl[i].idx : msl[i].idx[k] = c THEN 1 ELSE 0]]

NoPhotom == [set |-> FALSE, flam |-> << >>, eflam |-> << >>,
             filters |-> << >>, pivot |-> << >>, tempfilt |-> 0]

Idle == [op |-> "idle"]

\* no pscale attribute, or pscale = None
NoPscale == [none |-> TRUE, x |-> << >>]

\* the Group built from one of the given exposure layouts
InitFrom(layouts) ==
    /\ beams \in layouts
    /\ fit_mask = Flatten(beams)
    /\ scif = [p \in 1..Len(Flatten(beams)) |-> 100]
    /\ sivarf = [p \in 1..Len(Flatten(beams)) |-> <<1, 1>>]
    /\ weightf = [p \in 1..Len(Flatten(beams)) |-> 1]
    /\ wavef = Flatten([i \in 1..Len(beams) |->
                            [k \in 1..Len(beams[i]) |->
                                IF k <= Len(BeamWave) THEN BeamWave[k]
                                ELSE k * BeamWave[1]]])
    /\ Nphot = 0
    /\ Nmask = CountTrue(Flatten(beams))
    /\ DoF = CountTrue(Flatten(beams))
    /\ is_spec = [scalar |-> TRUE, arr |-> << >>]
    /\ photom = NoPhotom
    /\ mslices = GetSlices(beams, TRUE)
    /\ A_bgm = InitBackground(Len(beams), CountTrue(Flatten(beams)),
                              GetSlices(beams, TRUE))
    /\ pscale = NoPscale
    /\ ret = Idle
    /\ ncalls = 0

Init == InitFrom(BeamLayouts)

(***************************************************************************)
(* set_photometry / unset_photometry                                       *)
(***************************************************************************)
\* min_err = 0.02 as a fraction
MinErrNum == 2

MinErrDen == 100

\* filter.pivot() of filter f (external filter object): a wavelength
Pivot(f) == 12 * f

\* np.sqrt(eflam**2+(min_err*flam)**2), then [eflam < 0] = -99, one entry
PhotomEflam(fl, efl) ==
    IF efl < 0 THEN 0 - 99
    ELSE ISqrt(efl * efl + ((MinErrNum * fl) \div MinErrDen) * ((MinErrNum * fl) \div MinErrDen))

\* (eflam > 0).sum()
CountPositive(eflam) == Cardinality({k \in DOMAIN eflam : eflam[k] > 0})

\* is_spec = np.isfinite(scif); is_spec[-len(flam):] = False
IsSpecArray(newscif, nflam) ==
    [p \in 1..Len(newscif) |-> p <= Len(newscif) - nflam]

\* DoF = int((weightf*fit_mask).sum())
DegreesOfFreedom(w, m) ==
    SumSeq([p \in 1..Min(Len(w), Len(m)) |-> IF m[p] THEN w[p] ELSE 0])

\* the photometric mask with every point kept
PhotMaskAll(eflam) == [k \in DOMAIN eflam |-> TRUE]

\* the photometric part of fit_mask: eflam > 0
PhotMask(eflam) == [k \in DOMAIN eflam |-> eflam[k] > 0]

\* (len(flam) != len(eflam)) | (len(flam) != len(filters))
DimensionsMismatch(flam, eflam, filters) ==
    Len(flam) # Len(eflam) \/ Len(flam) # Len(filters)

\* what a set_photometry call returned, with what it was called on
SetRet(val, flam, eflam, filters, force) ==
    [op |-> "set_photometry", val |-> val,
     nflam |-> Len(flam), neflam |-> Len(eflam), nfilt |-> Len(filters),
     npos |-> CountPositive(eflam), force |-> force,
     pre |-> [Nphot |-> Nphot, scif |-> scif, sivarf |-> sivarf,
              weightf |-> weightf, wavef |-> wavef, fit_mask |-> fit_mask,
              Nmask |-> Nmask, DoF |-> DoF, photom |-> photom]]

SetPhotometry(flam, eflam, filters, force, tempfilt) ==
    IF Nphot > 0 /\ ~force
    THEN /\ ret' = SetRet("True", flam, eflam, filters, force)
         /\ UNCHANGED group
    ELSE /\ Nphot' = CountPositive(eflam)
         /\ IF CountPositive(eflam) = 0
            THEN /\ ret' = SetRet("True", flam, eflam, filters, force)
                 /\ UNCHANGED <<beams, scif, sivarf, weightf, wavef, fit_mask,
                                Nmask, DoF, is_spec, photom, mslices, A_bgm,
                                pscale>>
            ELSE IF DimensionsMismatch(flam, eflam, filters)
            THEN /\ ret' = SetRet("False", flam, eflam, filters, force)
                 /\ UNCHANGED <<beams, scif, sivarf, weightf, wavef, fit_mask,
                                Nmask, DoF, is_spec, photom, mslices, A_bgm,
                                pscale>>
            ELSE LET n == Min(Len(flam), Len(eflam))
                     pe == [k \in 1..n |-> PhotomEflam(flam[k], eflam[k])]
                     newmask == fit_mask \o PhotMask(eflam)
                     newweight == weightf \o [k \in DOMAIN pe |-> 1]
                 IN  /\ photom' = [set |-> TRUE, flam |-> flam, eflam |-> pe,
                                   filters |-> filters,
                                   pivot |-> [k \in DOMAIN filters |-> Pivot(filters[k])],
                                   tempfilt |-> tempfilt]
                     /\ sivarf' = sivarf \o [k \in DOMAIN pe |-> <<1, pe[k]>>]
                     /\ weightf' = newweight
                     /\ fit_mask' = newmask
                     /\ Nmask' = CountTrue(newmask)
                     /\ scif' = scif \o flam
                     /\ DoF' = DegreesOfFreedom(newweight, newmask)
                     /\ is_spec' = [scalar |-> FALSE,
                                    arr |-> IsSpecArray(scif \o flam, Len(flam))]
                     /\ wavef' = wavef \o [k \in DOMAIN filters |-> Pivot(filters[k])]
                     /\ ret' = SetRet("None", flam, eflam, filters, force)
                     /\ UNCHANGED <<beams, mslices, A_bgm, pscale>>

UnsetPhotometry ==
    IF Nphot = 0
    THEN /\ ret' = [op |-> "unset_photometry", val |-> "True"]
         /\ UNCHANGED group
    ELSE /\ sivarf' = DropLast(sivarf, Nphot)
         /\ weightf' = DropLast(weightf, Nphot)
         /\ fit_mask' = DropLast(fit_mask, Nphot)
         /\ scif' = DropLast(scif, Nphot)
         /\ wavef' = DropLast(wavef, Nphot)
         /\ Nmask' = CountTrue(DropLast(fit_mask, Nphot))
         /\ DoF' = DegreesOfFreedom(DropLast(weightf, Nphot), DropLast(fit_mask, Nphot))
         /\ is_spec' = [scalar |-> TRUE, arr |-> << >>]
         /\ Nphot' = 0
         /\ ret' = [op |-> "unset_photometry", val |-> "None"]
         /\ UNCHANGED <<beams, photom, mslices, A_bgm, pscale>>

(***************************************************************************)
(* xfit_at_z                                                               *)
(***************************************************************************)
\* most templates of a template set
MaxTemp == 2

\* Minimum redshift where IGM is applied
IGM_MINZ == 4

\* templates: name, rest-frame wavelengths, fluxes
Tcont == [name |-> "cont", wave |-> <<2, 4, 6, 12, 24>>,
          flux |-> <<60, 60, 60, 60, 60>>]

Tline == [name |-> "line Ha", wave |-> <<12>>, flux |-> <<60>>]

Tpoly == [name |-> "poly 1", wave |-> <<12, 24>>, flux |-> <<60, 0 - 60>>]

TemplateLibrary == {Tcont, Tline, Tpoly}

\* ordered template sets with unique names, at most n templates
TemplateSets(n) ==
    {ts \in SeqsUpTo(TemplateLibrary, n) :
        \A a, b \in DOMAIN ts : a # b => ts[a].name # ts[b].name}

\* t.startswith('line')
IsLine(name) == name \in {"line Ha"}

\* the trial redshifts
ZValues == {0, 1, 5}

\* igmz: IGM is None (eazy is not installed), so 1 at every redshift
Igmz(z) == IF z > IGM_MINZ THEN 1 ELSE 1

\* s = [ti.wave*(1+z), ti.flux/(1+z)*igmz]
Redshifted(t, z) ==
    [wave |-> [k \in DOMAIN t.wave |-> t.wave[k] * (1 + z)],
     flux |-> [k \in DOMAIN t.flux |-> (t.flux[k] \div (1 + z)) * Igmz(z)]]

\* beam.compute_model(spectrum_1d=s) at a pixel of wavelength lam, times
\* COEFF_SCALE: the flux of the spectrum's sample at that wavelength
ComputeModel(s, lam) ==
    IF \E k \in DOMAIN s.wave : s.wave[k] = lam
    THEN s.flux[CHOOSE k \in DOMAIN s.wave : s.wave[k] = lam]
    ELSE 0

\* tz.integrate_filter(filt)*3.e18/pivot**2 times COEFF_SCALE
IntegrateFilter(t, z, pivot) == ComputeModel(Redshifted(t, z), pivot)

\* the positions of the True entries of a mask, in order
RECURSIVE TruePositionsFrom(_, _)
TruePositionsFrom(m, p) ==
    IF m = << >> THEN << >>
    ELSE (IF Head(m) THEN <<p>> ELSE << >>) \o TruePositionsFrom(Tail(m), p + 1)

TruePositions(m) == TruePositionsFrom(m, 1)

SeqMin(s) == CHOOSE x \in {s[k] : k \in DOMAIN s} : \A k \in DOMAIN s : x <= s[k]

SeqMax(s) == CHOOSE x \in {s[k] : k \in DOMAIN s} : \A k \in DOMAIN s : x >= s[k]

\* the test of lines 656-665: exposure j takes part in the row of spectrum s
BeamUsed(j, s) ==
    /\ CountTrue(beams[j]) > 0
    /\ LET lam_beam == Compress(BeamWave, beams[j])
       IN  ~(SeqMin(s.wave) > SeqMax(lam_beam) \/ SeqMax(s.wave) < SeqMin(lam_beam))

\* the spectral part of row N+i: A[self.N+i, sl] = compute_model(...)[beam.fit_mask]
TemplateRow(t, z) ==
    LET s == Redshifted(t, z)
    IN  [c \in 1..Nmask |->
            IF \E j \in 1..N : /\ BeamUsed(j, s)
                               /\ \E k \in DOMAIN mslices[j].idx : mslices[j].idx[k] = c
            THEN LET j == CHOOSE jj \in 1..N :
                              /\ BeamUsed(jj, s)
                              /\ \E k \in DOMAIN mslices[jj].idx : mslices[jj].idx[k] = c
                     k == CHOOSE kk \in DOMAIN mslices[j].idx : mslices[j].idx[kk] = c
                 IN  ComputeModel(s, BeamWave[TruePositions(beams[j])[k]])
            ELSE 0]

\* an index of some mslices[j] of a used exposure lies outside the row
SliceOutOfRange(templates, z) ==
    \E i \in DOMAIN templates, j \in 1..N :
        /\ BeamUsed(j, Redshifted(templates[i], z))
        /\ \/ mslices[j].none
           \/ Len(mslices[j].idx) # CountTrue(beams[j])
           \/ \E k \in DOMAIN mslices[j].idx : mslices[j].idx[k] > Nmask

\* _interpolate_photometry: A_phot[:,mask], rows N+it filled by
\* integrate_filter, tempfilt being None
InterpolatePhotometry(z, templates) ==
    LET full == [r \in 1..(N + Len(templates)) |->
                    [f \in 1..Len(photom.flam) |->
                        IF r > N /\ f <= Len(photom.filters)
                        THEN IntegrateFilter(templates[r - N], z, photom.pivot[f])
                        ELSE 0]]
        mask == [f \in 1..Len(photom.eflam) |-> photom.eflam[f] > 0]
    IN  [r \in 1..(N + Len(templates)) |-> Compress(full[r], mask)]

\* the number of columns that x[:, :n] selects of a matrix with w columns
HeadWidth(n, w) == IF n >= 0 THEN Min(n, w) ELSE Max(0, w + n)

\* the number of columns that x[:, -n:] selects (n > 0)
TailWidth(n, w) == Min(n, w)

\* numpy can assign a block with c columns to a slice with w columns
Assignable(c, w) == c = w \/ c = 1

\* lower bounds of the bounded solver: -0.05 for backgrounds, -inf for
\* 'line' templates, 0 for the others; the model's solvers answer with one
\* of two values per row
LowerValue(fitter, r, templates) ==
    IF fitter = "nnls" THEN 0
    ELSE IF fitter = "lstsq" THEN 0 - 3
    ELSE IF r <= N THEN 0 - 5
    ELSE IF IsLine(templates[r - N].name) THEN 0 - 3 ELSE 0

UpperValue(fitter, r, templates) ==
    IF fitter \in {"nnls", "lstsq"} THEN 3
    ELSE IF r <= N THEN 5 ELSE 3

\* the design matrix A of lines 626-690
DesignMatrix(z, templates, fit_background) ==
    LET NTEMP == Len(templates)
        bgw == HeadWidth(Nmask - Nphot, Nmask)
        cb == IF N > 0 THEN Len(A_bgm[1]) ELSE 0
        A_phot == InterpolatePhotometry(z, templates)
        cp == IF N + NTEMP > 0 THEN Len(A_phot[1]) ELSE 0
        pw == TailWidth(Nphot, Nmask)
    IN  [r \in 1..(N + NTEMP) |-> [c \in 1..Nmask |->
            IF Nphot > 0 /\ c > Nmask - pw
            THEN A_phot[r][IF cp = 1 THEN 1 ELSE c - (Nmask - pw)]
            ELSE IF r <= N
            THEN (IF fit_background /\ c <= bgw
                  THEN A_bgm[r][IF cb = 1 THEN 1 ELSE c] ELSE 0)
            ELSE TemplateRow(templates[r - N], z)[c]]]

\* building A raises (shape mismatch, index out of range, missing attribute)
DesignMatrixRaises(z, templates, fit_background) ==
    \/ /\ fit_background
       /\ N > 0
       /\ ~Assignable(Len(A_bgm[1]), HeadWidth(Nmask - Nphot, Nmask))
    \/ SliceOutOfRange(templates, z)
    \/ /\ Nphot > 0
       /\ \/ ~photom.set
          \/ /\ N + Len(templates) > 0
             /\ ~Assignable(CountTrue([f \in 1..Len(photom.eflam) |-> photom.eflam[f] > 0]),
                            TailWidth(Nphot, Nmask))
    \/ (~is_spec.scalar /\ Len(is_spec.arr) # Len(scif))

\* oktemp = A.sum(axis=1) != 0
OkTemp(A) == [r \in DOMAIN A |-> SumSeq(A[r]) # 0]

\* the pedestal of lines 679-685 (hundredths)
Pedestal(fitter, fit_background) ==
    IF fit_background
    THEN (IF fitter \in {"nnls", "lstsq"} THEN 4 ELSE 0)
    ELSE 0

\* the solver's answer coeffs_i for the kept rows: each coefficient at the
\* lower or the upper of its two values, as sol chooses for backgrounds and
\* for templates
Solve(fitter, kept, templates, sol) ==
    [a \in DOMAIN kept |->
        IF (IF kept[a] <= N THEN sol.bg ELSE sol.t) = "lo"
        THEN LowerValue(fitter, kept[a], templates)
        ELSE UpperValue(fitter, kept[a], templates)]

\* sum over unmasked positions of resid**2 * sivarf**2 * weightf, as the
\* rational <<numerator, denominator>>; the denominator is 0 when a term
\* is not finite
ChiSquared(resid, sm, wm) ==
    LET RECURSIVE Den(_)
        Den(c) == IF c = 0 THEN 1 ELSE sm[c][2] * sm[c][2] * Den(c - 1)
        D == Den(Len(resid))
    IN  <<SumSeq([c \in DOMAIN resid |->
                    IF sm[c][2] = 0 THEN 0
                    ELSE resid[c] * resid[c] * sm[c][1] * sm[c][1] * wm[c]
                         * (D \div (sm[c][2] * sm[c][2]))]),
          D>>

\* the inverse Gram matrix of a system with k rows: entry (a, b); its
\* diagonal holds squares, so that np.sqrt of it is exact
InverseGram(k) ==
    [a \in 1..k |-> [b \in 1..k |-> IF a = b THEN (a + 1) * (a + 1) ELSE a + b]]

\* utils.fill_masked_covar(covar, mask): the matrix re-expanded to the
\* size of the mask, zero outside the kept rows and columns
FillMaskedCovar(covar, mask) ==
    LET kept == TruePositions(mask)
        Rank(r) == CHOOSE a \in DOMAIN kept : kept[a] = r
    IN  [r \in DOMAIN mask |-> [q \in DOMAIN mask |->
            IF mask[r] /\ mask[q] THEN covar[Rank(r)][Rank(q)] ELSE 0]]

\* the solved coefficients returned without re-expansion
CoeffsKept(coeffs_i, oktemp) == coeffs_i

\* coeffs = np.zeros(self.N+NTEMP); coeffs[oktemp] = coeffs_i
CoeffsFull(coeffs_i, oktemp) ==
    LET kept == TruePositions(oktemp)
        Rank(r) == CHOOSE a \in DOMAIN kept : kept[a] = r
    IN  [r \in DOMAIN oktemp |-> IF oktemp[r] THEN coeffs_i[Rank(r)] ELSE 0]

ZeroMatrix(n) == [r \in 1..n |-> [q \in 1..n |-> 0]]

\* the covariance with the failure of the inversion not caught
CovarianceUncaught(get_uncertainties, covfail, oktemp, coeffs_i) ==
    IF get_uncertainties = 0
    THEN ZeroMatrix(Len(oktemp))
    ELSE FillMaskedCovar(InverseGram(Len(coeffs_i)), oktemp)

\* covar of lines 753-783, before the scale constant is undone; coeffs_i is
\* the solution after the pedestal was subtracted
Covariance(get_uncertainties, covfail, oktemp, coeffs_i) ==
    IF get_uncertainties = 0 \/ covfail
    THEN ZeroMatrix(Len(oktemp))
    ELSE LET k == Len(coeffs_i)
             nonzero == [a \in 1..k |-> coeffs_i[a] # 0]
         IN  IF get_uncertainties = 2 /\ CountTrue(nonzero) > 0
             THEN FillMaskedCovar(
                      FillMaskedCovar(InverseGram(CountTrue(nonzero)), nonzero),
                      oktemp)
             ELSE FillMaskedCovar(InverseGram(k), oktemp)

\* x * COEFF_SCALE**e for the rows and columns of templates
ScaleExponent(r) == IF r > N THEN 1 ELSE 0

\* covar[self.N:,self.N:] *= COEFF_SCALE**2 : the exponent of entry (r, q)
CovarExponent(r, q) == IF r > N /\ q > N THEN 2 ELSE 0

Raised == [op |-> "xfit_at_z", status |-> "raise"]

RECURSIVE Pow10(_)
Pow10(k) == IF k = 0 THEN 1 ELSE 10 * Pow10(k - 1)

\* compute_scale_array(pscale, wave) at one wavelength: the polynomial with
\* coefficients pscale[k]/10**(k+1) in (wave-1.e4)/1000., wavelengths being
\* counted in units of 1000
ComputeScaleArray(ps, wave) ==
    LET RECURSIVE Poly(_)
        Poly(k) == IF k > Len(ps) THEN 0
                   ELSE (ps[k] \div Pow10(k)) + (wave - 10) * Poly(k + 1)
    IN  Poly(1)

\* scale of lines 702-704: 1 when there is no pscale, and on the last Nphot
\* positions
ScaleAt(c) ==
    IF pscale.none THEN 1
    ELSE IF Nphot > 0 /\ c > Nmask - TailWidth(Nphot, Nmask) THEN 1
    ELSE ComputeScaleArray(pscale.x, Compress(wavef, fit_mask)[c])

\* Ax/sivarf of lines 696-710: the kept rows of A times scale, the first N
\* of them divided by scale again when the background is fitted
\* every row left scaled
ScaledRowsAll(A, kept, fit_background) ==
    [a \in DOMAIN kept |-> [c \in 1..Nmask |-> A[kept[a]][c] * ScaleAt(c)]]

ScaledRows(A, kept, fit_background) ==
    [a \in DOMAIN kept |-> [c \in 1..Nmask |->
        IF ~pscale.none /\ fit_background /\ a <= N
        THEN (A[kept[a]][c] * ScaleAt(c)) \div ScaleAt(c)
        ELSE A[kept[a]][c] * ScaleAt(c)]]

\* what xfit_at_z returns (chi2, coeffs, coeffs_err, covar), with the
\* photom_model it stores and what it was called with
XfitResult(z, templates, fitter, fit_background, get_uncertainties, sol, covfail) ==
    IF DesignMatrixRaises(z, templates, fit_background) THEN Raised
    ELSE
    LET NTEMP == Len(templates)
        A == DesignMatrix(z, templates, fit_background)
        oktemp == OkTemp(A)
        kept == TruePositions(oktemp)
        k == Len(kept)
        sm == Compress(sivarf, fit_mask)
        wm == Compress(weightf, fit_mask)
        scim == Compress(scif, fit_mask)
        Ax == ScaledRows(A, kept, fit_background)
        pedestal == Pedestal(fitter, fit_background)
        data == Compress([p \in 1..Len(scif) |->
                             scif[p] + (IF is_spec.scalar \/ is_spec.arr[p]
                                        THEN pedestal ELSE 0)], fit_mask)
        solved == Solve(fitter, kept, templates, sol)
        pw == TailWidth(Nphot, Nmask)
        background == [c \in 1..Nmask |->
            IF ~fit_background THEN 0
            ELSE IF Nphot > 0 /\ c > Nmask - pw THEN 0
            ELSE SumSeq([i \in 1..N |-> solved[i] * A[i][c]]) - pedestal]
        coeffs_i == [a \in 1..k |->
            IF fit_background /\ a <= N THEN solved[a] - pedestal ELSE solved[a]]
        first == IF fit_background THEN N + 1 ELSE 1
        model == [c \in 1..Nmask |->
            SumSeq([a \in 1..Max(0, k - first + 1) |->
                       coeffs_i[a + first - 1] * Ax[a + first - 1][c]])]
        resid == [c \in 1..Nmask |-> scim[c] - model[c] - background[c]]
        covar == Covariance(get_uncertainties, covfail, oktemp, coeffs_i)
        coeffs == CoeffsFull(coeffs_i, oktemp)
    IN  IF fit_background /\ k < N THEN Raised
        ELSE [op |-> "xfit_at_z", status |-> "ok",
              chi2 |-> ChiSquared(resid, sm, wm),
              coeffs |-> [r \in 1..Len(coeffs) |->
                            <<coeffs[r], ScaleExponent(r)>>],
              coeffs_err |-> [r \in 1..Len(covar) |->
                            <<ISqrt(covar[r][r]), ScaleExponent(r)>>],
              covar |-> [r \in 1..Len(covar) |-> [q \in 1..Len(covar) |->
                            <<covar[r][q], CovarExponent(r, q)>>]],
              photom_model |-> SubSeq(model, Nmask - pw + 1, Nmask),
              names |-> [i \in 1..NTEMP |-> templates[i].name],
              fitter |-> fitter, fit_background |-> fit_background,
              get_uncertainties |-> get_uncertainties, covfail |-> covfail,
              A |-> A, oktemp |-> oktemp, solved |-> solved,
              pedestal |-> pedestal, sivarm |-> sm,
              data |-> data, background |-> background, Ax |-> Ax]

XfitAtZ(z, templates, fitter, fit_background, get_uncertainties, sol, covfail) ==
    /\ ret' = XfitResult(z, templates, fitter, fit_background,
                         get_uncertainties, sol, covfail)
    /\ UNCHANGED group

(***************************************************************************)
(* xfit_redshift and _parse_zfit_output.  Redshifts are counted in         *)
(* hundredths and chi-squared values are integers.                         *)
(***************************************************************************)
\* most points of a coarse grid
MaxSpan == 4

\* dz[0] = 0.69, the step for which exp(dz[0]) is 2 at this resolution
Dz0 == 69

\* peakutils.indexes(..., thres=0.4, min_dist=8)
MinDist == 8

RECURSIVE Pow2(_)
Pow2(k) == IF k = 0 THEN 1 ELSE 2 * Pow2(k - 1)

\* utils.log_zgrid(zr, dz=Dz0): np.exp(np.arange(np.log(1+zr[0]),
\* np.log(1+zr[1]), dz))-1
LogZgrid(zr) ==
    LET n == Cardinality({i \in 0..(MaxSpan + 2) :
                             (100 + zr[1]) * Pow2(i) < 100 + zr[2]})
    IN  [i \in 1..n |-> (100 + zr[1]) * Pow2(i - 1) - 100]

\* utils.log_zgrid(zr, dz) for a range and a step that are small against 1,
\* where the log grid is linear within the resolution
SmallZgrid(zr, dz) ==
    LET n == Cardinality({k \in 0..(zr[2] - zr[1]) : k * dz < zr[2] - zr[1]})
    IN  [i \in 1..n |-> zr[1] + (i - 1) * dz]

\* the zr, dz[0] and fitter arguments: zr is 0 (stars, replaced by [0, 0.01])
\* or a range that holds k coarse points; one is 1.0 in the unit of zr
ZrInputs ==
    {[stars |-> TRUE, zr |-> <<0, 1>>, dz0 |-> Dz0, one |-> 100,
      fitter |-> "nnls"]} \cup
    {[stars |-> FALSE, zr |-> <<lo, (100 + lo) * Pow2(k) - 100>>, dz0 |-> Dz0,
      one |-> 100, fitter |-> "nnls"] :
        lo \in {0, 100}, k \in 1..MaxSpan}

\* the data, as the chi-squared curve they give: flat, or with a dip of
\* the given centre, floor and width; the last one is a shallow dip
DataSets ==
    {[dip |-> FALSE, c |-> 0, floor |-> 20, w |-> 1000]} \cup
    {[dip |-> TRUE, c |-> c, floor |-> f, w |-> w] :
        c \in {100, 300}, f \in {0, 20}, w \in {400, 1000}} \cup
    {[dip |-> TRUE, c |-> 300, floor |-> 100, w |-> 400]}

\* the chi2 that xfit_at_z returns at redshift z
Chi2At(data, z) ==
    IF ~data.dip THEN 250
    ELSE IF "c2" \in DOMAIN data
    THEN Min(250, Min(data.floor + ((z - data.c) * (z - data.c)) \div data.w,
                      data.floor2 + ((z - data.c2) * (z - data.c2)) \div data.w))
    ELSE Min(250, data.floor + ((z - data.c) * (z - data.c)) \div data.w)

\* out = self.xfit_at_z(z=z, ...): chi2, and coefficients and covariance
\* that stand for the ones fitted at z
Evaluate(data, z) ==
    [chi2 |-> Chi2At(data, z), coeffs |-> <<z>>, covar |-> << <<z>> >>]

\* chi2_rev of lines 881-888, times DoF
\* the curve without chi2_rev[chi2_rev < 0] = 0
Chi2RevUnclipped(chi2, chi2_poly) ==
    LET cmin == SeqMin(chi2)
        ref == IF chi2_poly > cmin + 100 THEN cmin + 100
               ELSE IF chi2_poly < cmin + 9 THEN cmin + 16
               ELSE chi2_poly
    IN  [i \in DOMAIN chi2 |-> ref - chi2[i]]

Chi2Rev(chi2, chi2_poly) ==
    LET cmin == SeqMin(chi2)
        ref == IF chi2_poly > cmin + 100 THEN cmin + 100
               ELSE IF chi2_poly < cmin + 9 THEN cmin + 16
               ELSE chi2_poly
    IN  [i \in DOMAIN chi2 |-> Max(0, ref - chi2[i])]

\* peakutils.indexes: the candidates taken in order of decreasing height
\* (of equal ones the later first); one that is still there removes the
\* others within min_dist of it
RECURSIVE KeepPeaks(_, _, _)
KeepPeaks(y, cand, removed) ==
    IF cand = {} THEN {}
    ELSE LET p == CHOOSE i \in cand : \A j \in cand :
                      y[j] < y[i] \/ (y[j] = y[i] /\ j <= i)
             near == {j \in cand : j # p /\ j - p <= MinDist /\ p - j <= MinDist}
         IN  IF p \in removed THEN KeepPeaks(y, cand \ {p}, removed)
             ELSE {p} \cup KeepPeaks(y, cand \ {p}, removed \cup near)

\* peakutils.indexes(y, thres=0.4, min_dist=8): the strict local maxima
\* above 0.4*(max-min)+min that survive the min_dist rule, in increasing
\* order (indices counted from 1).  With DoF = 0 chi2_rev is not finite and
\* nothing is above the threshold.
PeakIndexes(y) ==
    LET n == Len(y)
        cand == {i \in 2..(n - 1) :
                    /\ y[i - 1] < y[i]
                    /\ y[i] > y[i + 1]
                    /\ 10 * y[i] > 4 * SeqMax(y) + 6 * SeqMin(y)}
        kept == KeepPeaks(y, cand, {})
    IN  IF DoF = 0 \/ n = 0 THEN << >>
        ELSE [k \in 1..Cardinality(kept) |->
                CHOOSE i \in kept : Cardinality({j \in kept : j < i}) = k - 1]

\* c = polyfit(x, y, 2); zi = -c[1]/(2*c[0]) for three points, rounded
\* down to the resolution: <<zi, finite>>
ParabolaVertex(x, y) ==
    LET h1 == x[2] - x[1]
        h2 == x[3] - x[2]
        u == y[1] - y[2]
        v == y[3] - y[2]
        num == u * h2 * h2 - v * h1 * h1
        den == 2 * (u * h2 + v * h1)
    IN  IF den = 0 THEN <<0, FALSE>>
        ELSE IF den > 0 THEN <<x[2] + (num \div den), TRUE>>
        ELSE <<x[2] + ((0 - num) \div (0 - den)), TRUE>>

\* np.polyfit([p, q, q], [y1, y0, y0], 2) and -c[1]/(2*c[0]): with a
\* repeated abscissa the system has rank 2 and polyfit returns the
\* least-squares solution of minimum norm in the coefficients scaled by
\* the column norms of the Vandermonde matrix, c = line + lam*(x-p)*(x-q)
\* with lam = Nm/D; its vertex is (p+q)/2 - m/(2*lam), m the slope of the
\* line.  p, q are taken in 32nds of the larger of |p|, |q|, the offset is
\* cut off at 100 times that, and c[0] = 0 gives a vertex that is not finite
MinNormVertex(p, q, y1, y0) ==
    LET Abs(a) == IF a < 0 THEN 0 - a ELSE a
        w == Max(1, Max(Abs(p), Abs(q)))
        Vertex(P, Q, dy) ==
            LET S1 == P * P + 2 * Q * Q
                D == P * P * P * P + 2 * Q * Q * Q * Q
                         + (P + Q) * (P + Q) * S1 + 3 * P * P * Q * Q
                Nm == (P + Q) * S1 * dy - 3 * P * Q * (y1 * Q - y0 * P)
                E == IF Nm > 0 THEN (dy * D) \div (2 * Nm)
                     ELSE 0 - ((dy * D) \div (2 * (0 - Nm)))
                cut == Max(0 - 3200, Min(3200, E))
            IN  IF Nm = 0 THEN <<0, FALSE>>
                ELSE <<((p + q) \div 2) - ((w * cut) \div 32), TRUE>>
    IN  Only({Vertex(P, Q, dy) : P \in {(32 * p) \div w},
                                Q \in {(32 * q) \div w}, dy \in {y0 - y1}})

\* np.arange(zi-2*dz[0], zi+2*dz[0]+dz[1]/10., dz[1])
\* a dense grid that reaches one coarse step to each side only
ZoomPointsHalf(zi, dz0, dz1) ==
    LET n == Cardinality({m \in 0..(2 * dz0) : 10 * m * dz1 < 20 * dz0 + dz1})
    IN  [m \in 1..n |-> zi - dz0 + (m - 1) * dz1]

ZoomPoints(zi, dz0, dz1) ==
    LET n == Cardinality({m \in 0..(4 * dz0) : 10 * m * dz1 < 40 * dz0 + dz1})
    IN  [m \in 1..n |-> zi - 2 * dz0 + (m - 1) * dz1]

\* zgrid_zoom of lines 899-906
\* the dense points around the first peak only
ZgridZoomFirst(indexes, zgrid, chi2, dz0, dz1) ==
    IF indexes = << >> \/ Head(indexes) = 1 \/ Head(indexes) = Len(chi2)
    THEN << >>
    ELSE ZoomPoints(ParabolaVertex(SubSeq(zgrid, Head(indexes) - 1,
                                          Head(indexes) + 1),
                                   SubSeq(chi2, Head(indexes) - 1,
                                          Head(indexes) + 1))[1], dz0, dz1)

RECURSIVE ZgridZoom(_, _, _, _, _)
ZgridZoom(indexes, zgrid, chi2, dz0, dz1) ==
    IF indexes = << >> THEN << >>
    ELSE LET ix == Head(indexes)
             rest == ZgridZoom(Tail(indexes), zgrid, chi2, dz0, dz1)
         IN  IF ix > 1 /\ ix < Len(chi2)
             THEN ZoomPoints(ParabolaVertex(SubSeq(zgrid, ix - 1, ix + 1),
                                            SubSeq(chi2, ix - 1, ix + 1))[1],
                             dz0, dz1) \o rest
             ELSE rest

\* some polyfit of lines 902-903 gives a vertex that is not finite
ZoomRaises(indexes, zgrid, chi2) ==
    \E k \in DOMAIN indexes :
        /\ indexes[k] > 1
        /\ indexes[k] < Len(chi2)
        /\ ~ParabolaVertex(SubSeq(zgrid, indexes[k] - 1, indexes[k] + 1),
                           SubSeq(chi2, indexes[k] - 1, indexes[k] + 1))[2]

\* so = np.argsort(zgrid); equal redshifts carry equal rows, so their
\* order among themselves does not show
ArgSort(z) ==
    LET Rank(j) == 1 + Cardinality({k \in DOMAIN z :
                        z[k] < z[j] \/ (z[k] = z[j] /\ k < j)})
    IN  [i \in DOMAIN z |-> CHOOSE j \in DOMAIN z : Rank(j) = i]

\* arr[so]
Take(arr, so) == [i \in DOMAIN so |-> arr[so[i]]]

\* the sort applied to zgrid alone
SortZgridOnly(zgrid, rows) ==
    [zgrid |-> Take(zgrid, ArgSort(zgrid)),
     chi2 |-> [i \in DOMAIN rows |-> rows[i].chi2],
     coeffs |-> [i \in DOMAIN rows |-> rows[i].coeffs],
     covar |-> [i \in DOMAIN rows |-> rows[i].covar]]

\* lines 939-943: zgrid, chi2, coeffs and covar reordered by so
SortTable(zgrid, rows) ==
    LET so == ArgSort(zgrid)
    IN  [zgrid |-> Take(zgrid, so),
         chi2 |-> Take([i \in DOMAIN rows |-> rows[i].chi2], so),
         coeffs |-> Take([i \in DOMAIN rows |-> rows[i].coeffs], so),
         covar |-> Take([i \in DOMAIN rows |-> rows[i].covar], so)]

\* priors (z, p): none, flat, a ramp from zero, one that is zero outside
\* 0.4 < z < 0.6, one that is zero for 2.8 <= z <= 4.16 only
NoPrior == [on |-> FALSE, z |-> << >>, p |-> << >>]

PriorInputs ==
    {NoPrior,
     [on |-> TRUE, z |-> <<0, 4000>>, p |-> <<1, 1>>],
     [on |-> TRUE, z |-> <<0, 400>>, p |-> <<0, 8>>],
     [on |-> TRUE, z |-> <<40, 50, 60>>, p |-> <<0, 8, 0>>],
     [on |-> TRUE, z |-> <<0, 279, 280, 416, 417, 4000>>,
      p |-> <<8, 8, 0, 0, 8, 8>>]}

\* np.interp(x, xp, fp)
Interp(x, xp, fp) ==
    IF x <= xp[1] THEN fp[1]
    ELSE IF x >= xp[Len(xp)] THEN fp[Len(fp)]
    ELSE LET k == CHOOSE kk \in 1..(Len(xp) - 1) : xp[kk] <= x /\ x < xp[kk + 1]
         IN  fp[k] + ((fp[k + 1] - fp[k]) * (x - xp[k])) \div (xp[k + 1] - xp[k])

\* 1000*exp(-n/2), n = 0, 1, ...
ExpTable == <<1000, 607, 368, 223, 135, 82, 50, 30, 18, 11, 7, 4, 2, 2, 1, 1>>

ExpNegHalf(n) == IF n + 1 <= Len(ExpTable) THEN ExpTable[n + 1] ELSE 0

\* twice np.trapz(y, x)
Trapz2(y, x) ==
    SumSeq([i \in 1..(Len(x) - 1) |-> (x[i + 1] - x[i]) * (y[i] + y[i + 1])])

\* pdf before normalisation, lines 989-998: <<values, finite>>; the
\* values are not finite when chi2.min() = 0 divides by scl_nu = 0
RawPdf(zgrid, chi2, prior) ==
    LET cmin == SeqMin(chi2)
        like == [i \in DOMAIN chi2 |->
                    IF DoF = 0 THEN ExpNegHalf(0)
                    ELSE ExpNegHalf(((chi2[i] - cmin) * DoF) \div Max(1, cmin))]
    IN  <<[i \in DOMAIN chi2 |->
              IF prior.on THEN like[i] * Interp(zgrid[i], prior.z, prior.p)
              ELSE like[i]],
          cmin # 0>>

\* the pdf left as it is
Unnormalised(raw, zgrid) == [num |-> raw[1], den |-> IF raw[2] THEN 1 ELSE 0]

\* pdf /= np.trapz(pdf, fit['zgrid']): the pdf as numerators over a common
\* denominator, which is 0 when the pdf is not finite
Normalise(raw, zgrid) ==
    [num |-> [i \in DOMAIN raw[1] |-> 2 * raw[1][i]],
     den |-> IF raw[2] THEN Trapz2(raw[1], zgrid) ELSE 0]

\* 100*exp(j*dz) for the step dz = Dz0/4 of the fine grid, j = 0..3
FineRatio == <<100, 119, 141, 168>>

\* utils.log_zgrid(zr=[zmin, zmax], dz=Dz0/4), from its i-th point on
RECURSIVE FineFrom(_, _, _)
FineFrom(i, zmin, zmax) ==
    LET x == ((100 + zmin) * Pow2(i \div 4) * FineRatio[(i % 4) + 1]) \div 100
    IN  IF 100 + zmin > 0 /\ x < 100 + zmax
        THEN <<x - 100>> \o FineFrom(i + 1, zmin, zmax)
        ELSE << >>

\* zfine = utils.log_zgrid(zr=[fit['zgrid'].min(), fit['zgrid'].max()], dz)
\* for a table in hundredths; in a table in ten-thousandths dz = 0.0001 is
\* the unit and the log grid is linear within the resolution
Zfine(fit) ==
    IF fit.one = 100 THEN FineFrom(0, SeqMin(fit.zgrid), SeqMax(fit.zgrid))
    ELSE [i \in 1..(SeqMax(fit.zgrid) - SeqMin(fit.zgrid)) |->
             SeqMin(fit.zgrid) + i - 1]

\* the interval of the grid that holds x, min(zgrid) <= x < max(zgrid)
Bracket(zgrid, x) ==
    CHOOSE k \in 1..(Len(zgrid) - 1) : zgrid[k] <= x /\ x < zgrid[k + 1]

\* ok = np.isfinite(spl(zfine)) at x: the Akima polynomial of interval k
\* is built from the slopes of the intervals k-2..k+2, which are finite
\* when log(pdf) is finite and the abscissae differ at the nodes k-2..k+3
SplineFinite(zgrid, pdf, x) ==
    LET k == Bracket(zgrid, x)
        nodes == {j \in (k - 2)..(k + 3) : j \in DOMAIN zgrid}
    IN  /\ \A j \in nodes : pdf.num[j] > 0
        /\ \A j \in nodes : (j + 1) \in nodes => zgrid[j] < zgrid[j + 1]

\* zfine[ok]
ZfineOk(fit, pdf) ==
    Only({Compress(zfine, [i \in DOMAIN zfine |->
                              SplineFinite(fit.zgrid, pdf, zfine[i])]) :
          zfine \in {Zfine(fit)}})

\* np.exp(spl(x)) in thousandths of the largest pdf value (the unit
\* cancels in the cdf); the interpolator passes through the pdf at the
\* nodes and is taken linear in between; exp() of a finite value is
\* positive
SplineExp(zgrid, pdf, x) ==
    Max(1, (1000 * Interp(x, zgrid, pdf.num)) \div SeqMax(pdf.num))

\* twice np.gradient(x)
Gradient2(x) ==
    [i \in DOMAIN x |->
        IF i = 1 THEN 2 * (x[2] - x[1])
        ELSE IF i = Len(x) THEN 2 * (x[i] - x[i - 1])
        ELSE x[i + 1] - x[i - 1]]

\* np.cumsum
CumSum(x) == Only({[i \in DOMAIN y |-> SumSeq(SubSeq(y, 1, i))] : y \in {x}})

\* cdf = np.cumsum(np.exp(spl(zfine[ok]))*dz/norm), lines 1010-1014, as
\* numerators over the common denominator 2*norm
Cdf(fit, pdf) ==
    LET Values(zf) == [i \in DOMAIN zf |-> SplineExp(fit.zgrid, pdf, zf[i])]
        Sums(zf, v, dz) ==
            [num |-> CumSum([i \in DOMAIN zf |-> v[i] * dz[i]]),
             den |-> Trapz2(v, zf)]
    IN  Only({Only({Sums(zf, v, dz) : v \in {Values(zf)},
                                      dz \in {Gradient2(zf)}}) :
              zf \in {ZfineOk(fit, pdf)}})

\* the levels with the median listed before the 16th percentile
PzLevelsSwapped == <<5, 100, 32, 168, 195>>

\* np.array([2.5, 16, 50, 84, 97.5])/100., in two-hundredths
PzLevels == <<5, 32, 100, 168, 195>>

\* pz_percentiles = np.interp(levels, cdf, zfine[ok]), line 1015
PzPercentiles(fit, pdf) ==
    Only({[q \in DOMAIN PzLevels |->
              Interp((cdf.den \div 200) * PzLevels[q]
                         + ((cdf.den % 200) * PzLevels[q]) \div 200,
                     cdf.num, zf)] :
          cdf \in {Cdf(fit, pdf)}, zf \in {ZfineOk(fit, pdf)}})

\* the loss with its sign reversed
LossNegated(delta, onepz) == 0 - 100

\* _loss((zi - zj)/(1 + zj), gamma=0.15) = 1 - 1/(1 + (dz/gamma)**2) in
\* hundredths, for delta = zi - zj and onepz = 1 + zj > 0; dz/gamma is
\* taken in hundredths and the loss of |dz/gamma| >= 100 is 1
Loss(delta, onepz) ==
    LET a == IF delta < 0 THEN 0 - delta ELSE delta
        q == Min(10000, (2000 * a) \div (3 * onepz))
    IN  100 - (1000000 \div (q * q + 10000))

\* the pdf in thousandths of its largest value, the unit of the risk
PdfPermille(pdf) ==
    [j \in DOMAIN pdf.num |-> (1000 * pdf.num[j]) \div SeqMax(pdf.num)]

\* risk = np.dot(pdf*L, dz), lines 1020-1026, with dz = np.gradient(zgrid)
\* doubled: risk[i] = sum over j of pdf[j]*L[i][j]*dz[j]
Risk(fit, pdf) ==
    Only({[i \in DOMAIN z |->
              SumSeq([j \in DOMAIN z |->
                  pm[j] * Loss(z[i] - z[j], fit.one + z[j]) * dz[j]])] :
          z \in {fit.zgrid}, pm \in {PdfPermille(pdf)},
          dz \in {Gradient2(fit.zgrid)}})

\* lines 1027-1037: zi = np.argmin(risk), z_risk the vertex of the
\* parabola through the three points around zi when zi is interior (the
\* risks in hundredths of their range, or of their maximum when the
\* abscissa zgrid[zi] repeats), and min_risk = np.trapz(pdf*_loss(...),
\* zgrid), doubled, which is computed at zgrid[zi] in the model when z_risk
\* is not finite
RiskSummary(fit, pdf) ==
    LET Summary(z, pm, risk) ==
            LET n == Len(risk)
                zi == CHOOSE i \in 1..n :
                          /\ risk[i] = SeqMin(risk)
                          /\ \A j \in 1..(i - 1) : risk[j] > risk[i]
                unit == Max(1, (SeqMax(risk) - SeqMin(risk)) \div 100)
                y == [i \in (zi - 1)..(zi + 1) |->
                         (risk[i] - SeqMin(risk)) \div unit]
                big == Max(1, SeqMax(risk) \div 100)
                v == IF zi > 1 /\ zi < n
                     THEN IF z[zi + 1] = z[zi]
                          THEN MinNormVertex(z[zi - 1], z[zi],
                                             risk[zi - 1] \div big,
                                             risk[zi] \div big)
                          ELSE ParabolaVertex(SubSeq(z, zi - 1, zi + 1),
                                              <<y[zi - 1], y[zi], y[zi + 1]>>)
                     ELSE <<z[zi], TRUE>>
                z_risk == IF v[2] THEN v[1] ELSE z[zi]
            IN  [risk |-> risk, zi |-> zi, z_risk |-> z_risk, finite |-> v[2],
                 min_risk |-> Trapz2([j \in 1..n |->
                                  pm[j] * Loss(z_risk - z[j], fit.one + z[j])], z)]
    IN  Only({Summary(z, pm, risk) :
              z \in {fit.zgrid}, pm \in {PdfPermille(pdf)},
              risk \in {Risk(fit, pdf)}})

\* lines 1039-1045: zi = np.argmax(pdf), z_map the vertex of the parabola
\* through the three points around zi when zi is interior (the pdf in
\* thousandths of its largest value, in hundredths when the abscissa
\* zgrid[zi] repeats)
Zmap(fit, pdf) ==
    LET Summary(z, pm) ==
            LET n == Len(pm)
                zi == CHOOSE i \in 1..n :
                          /\ pdf.num[i] = SeqMax(pdf.num)
                          /\ \A j \in 1..(i - 1) : pdf.num[j] < pdf.num[i]
                v == IF zi > 1 /\ zi < n
                     THEN IF z[zi + 1] = z[zi]
                          THEN MinNormVertex(z[zi - 1], z[zi],
                                             pm[zi - 1] \div 10, pm[zi] \div 10)
                          ELSE ParabolaVertex(SubSeq(z, zi - 1, zi + 1),
                                              SubSeq(pm, zi - 1, zi + 1))
                     ELSE <<z[zi], TRUE>>
            IN  [zi |-> zi, z_map |-> v[1], finite |-> v[2]]
    IN  Only({Summary(z, pm) : z \in {fit.zgrid}, pm \in {PdfPermille(pdf)}})

\* lines 1007-1015 raise: the pdf is not finite; log_zgrid gets
\* 1 + min(zgrid) <= 0; the spline of log(pdf) is finite at fewer than two
\* points of zfine, so that np.gradient fails; or the interpolator rejects
\* (strict) abscissae that do not increase strictly and ordinates that are
\* not finite
ParseRaises(fit, pdf, strict) ==
    \/ pdf.den = 0
    \/ Len(fit.zgrid) < 2
    \/ /\ strict
       /\ \/ \E i \in 1..(Len(fit.zgrid) - 1) :
                 fit.zgrid[i] >= fit.zgrid[i + 1]
          \/ \E i \in DOMAIN pdf.num : pdf.num[i] = 0
    \/ fit.one + SeqMin(fit.zgrid) <= 0
    \/ Len(ZfineOk(fit, pdf)) < 2

RaisedZ == [op |-> "xfit_redshift", status |-> "raise"]

\* fit = self._parse_zfit_output(fit, prior=prior): the table with what
\* lines 1048-1062 store in it, or the exception of lines 1007-1015
ParseZfitOutput(fit, prior, strict) ==
    LET Stored(tab, pdf) ==
            IF ParseRaises(tab, pdf, strict) THEN RaisedZ
            ELSE [op |-> "xfit_redshift", status |-> "ok",
                  zgrid |-> tab.zgrid, chi2 |-> tab.chi2,
                  coeffs |-> tab.coeffs, covar |-> tab.covar, pdf |-> pdf,
                  NZ |-> tab.NZ, NZOOM |-> tab.NZOOM, indexes |-> tab.indexes,
                  coarse |-> tab.coarse, zoom |-> tab.zoom, dz0 |-> tab.dz0,
                  data |-> tab.data, hasprior |-> prior.on, prior |-> prior,
                  one |-> tab.one, stars |-> tab.stars, calls |-> tab.calls,
                  fitter |-> tab.fitter, args |-> tab.args,
                  chi2_poly |-> tab.chi2_poly, chi2_rev |-> tab.chi2_rev,
                  dz1 |-> tab.dz1,
                  pz_percentiles |-> PzPercentiles(tab, pdf),
                  risk |-> RiskSummary(tab, pdf), map |-> Zmap(tab, pdf)]
    IN  Only({Only({Stored(tab, pdf) :
                    pdf \in {Normalise(RawPdf(tab.zgrid, tab.chi2, prior),
                                       tab.zgrid)}}) :
              tab \in {fit}})

\* the condition of the zoom, line 898
\* a zoom that does not look at stars
DoZoomStars(num_peaks, stars, zoom) == num_peaks > 0 /\ zoom

DoZoom(num_peaks, stars, zoom) == num_peaks > 0 /\ ~stars /\ zoom

\* the fit table of xfit_redshift, lines 816-976 (with the coarse grid, the
\* peaks, the arguments it was made from and the xfit_at_z calls of the two
\* loops in the order they were made), handed to _parse_zfit_output
XfitRedshiftResult(zin, dz1, data, chi2_poly, zoom, prior, strict) ==
    LET zgrid == IF zin.one # 100 THEN SmallZgrid(zin.zr, zin.dz0)
                 ELSE IF zin.dz0 = Dz0 THEN LogZgrid(zin.zr)
                 ELSE FineFrom(0, zin.zr[1], zin.zr[2])
        fitter == IF zin.stars THEN "nnls" ELSE zin.fitter
        NZ == Len(zgrid)
        rows == [i \in 1..NZ |-> Evaluate(data, zgrid[i])]
        chi2 == [i \in 1..NZ |-> rows[i].chi2]
        indexes == PeakIndexes(Chi2Rev(chi2, chi2_poly))
        dozoom == DoZoom(Len(indexes), zin.stars, zoom)
        zgrid_zoom == IF dozoom
                      THEN ZgridZoom(indexes, zgrid, chi2, zin.dz0, dz1)
                      ELSE << >>
        Table(zg, zz, ix) ==
            LET so == SortTable(zg \o zz,
                        [i \in 1..(Len(zg) + Len(zz)) |->
                            Evaluate(data, (zg \o zz)[i])])
            IN  [zgrid |-> so.zgrid, chi2 |-> so.chi2, coeffs |-> so.coeffs,
                 covar |-> so.covar, NZ |-> Len(zg), NZOOM |-> Len(zz),
                 indexes |-> ix, coarse |-> zg, zoom |-> zoom,
                 dz0 |-> zin.dz0, data |-> data, one |-> zin.one,
                 stars |-> zin.stars, fitter |-> fitter, args |-> zin,
                 chi2_poly |-> chi2_poly, dz1 |-> dz1,
                 chi2_rev |-> Chi2Rev([i \in 1..Len(zg) |->
                                 Evaluate(data, zg[i]).chi2], chi2_poly),
                 calls |-> [i \in 1..(Len(zg) + Len(zz)) |->
                               [z |-> (zg \o zz)[i], fitter |-> fitter]]]
    IN  IF NZ = 0 THEN RaisedZ
        ELSE IF dozoom /\ ZoomRaises(indexes, zgrid, chi2) THEN RaisedZ
        ELSE ParseZfitOutput(Only({Table(zg, zz, ix) :
                                      zg \in {zgrid}, zz \in {zgrid_zoom},
                                      ix \in {indexes}}),
                             prior, strict)

XfitRedshift(zin, dz1, data, chi2_poly, zoom, prior, strict) ==
    /\ ret' = XfitRedshiftResult(zin, dz1, data, chi2_poly, zoom, prior, strict)
    /\ UNCHANGED group

\* one photometric measurement <<flam, eflam>> (hundredths): a good one, one
\* flagged by a negative uncertainty and one with zero uncertainty
PhotEntries == {<<200, 3>>, <<200, 0 - 1>>, <<200, 0>>}

\* the measurement lists a caller may hold, and the inputs cut from them:
\* flam or filters possibly one entry short of eflam
Flam(meas, cut) == [k \in 1..Max(0, Len(meas) - cut) |-> meas[k][1]]

Eflam(meas) == [k \in 1..Len(meas) |-> meas[k][2]]

Filters(meas, cut) == [k \in 1..Max(0, Len(meas) - cut) |-> k]

\* a script preparing or clearing photometry: set_photometry with any of
\* the bounded inputs
CallSetPhotometry ==
    \E meas \in SeqsUpTo(PhotEntries, MaxPhot), cutflam \in 0..1,
       cutfilt \in 0..1, force \in BOOLEAN :
        /\ ret = Idle
        /\ ncalls < MaxCalls
        /\ ncalls' = ncalls + 1
        /\ SetPhotometry(Flam(meas, cutflam), Eflam(meas),
                         Filters(meas, cutfilt), force, 0)

CallUnsetPhotometry ==
    /\ ret = Idle
    /\ ncalls < MaxCalls
    /\ ncalls' = ncalls + 1
    /\ UnsetPhotometry

\* the caller takes the returned value and may make its next call
Resume ==
    /\ ret # Idle
    /\ ret' = Idle
    /\ UNCHANGED <<group, ncalls>>

Next ==
    \/ CallSetPhotometry
    \/ CallUnsetPhotometry
    \/ Resume

Spec == Init /\ [][Next]_vars

(***************************************************************************)
(* A fitting script: photometry set at most once, then fits                *)
(***************************************************************************)
\* the measurement lists of the fitting scripts: one good point; a good
\* and a flagged one; a good one and one with zero uncertainty; one with
\* zero flux and zero uncertainty and a good one
FitMeasurements ==
    { << <<200, 3>> >>,
      << <<200, 3>>, <<200, 0 - 1>> >>,
      << <<200, 3>>, <<200, 0>> >>,
      << <<0, 0>>, <<200, 3>> >> }

FitSetPhotometry ==
    \E meas \in FitMeasurements, cutfilt \in 0..1 :
        /\ ret = Idle
        /\ SetPhotometry(Flam(meas, 0), Eflam(meas), Filters(meas, cutfilt),
                         FALSE, 0)
        /\ UNCHANGED ncalls

Fitters == {"nnls", "lstsq", "bounded"}

CallXfitAtZ ==
    \E z \in ZValues, templates \in TemplateSets(MaxTemp), fitter \in Fitters,
       fit_background \in BOOLEAN, get_uncertainties \in 0..2,
       bg \in {"lo", "hi"}, t \in {"lo", "hi"}, covfail \in BOOLEAN :
        /\ ret = Idle
        /\ (get_uncertainties = 0 => ~covfail)
        /\ XfitAtZ(z, templates, fitter, fit_background, get_uncertainties,
                   [bg |-> bg, t |-> t], covfail)
        /\ UNCHANGED ncalls

NextFit ==
    \/ FitSetPhotometry
    \/ CallXfitAtZ
    \/ Resume

SpecFit == Init /\ [][NextFit]_vars

(***************************************************************************)
(* A template at redshift z as the spectral block of xfit_at_z and as      *)
(* zscale, for the photometric block, make it, with and without eazy       *)
(***************************************************************************)
\* eazy.igm.Inoue14().full_IGM(z, lam), in percent: the transmission is
\* below 1 blueward of the redshifted Lyman-alpha line, at wavelength 7 in
\* the rest frame at the model's resolution
FullIGM(z, lam) == IF z > 0 /\ lam < 7 * (1 + z) THEN 50 ELSE 100

\* s = [ti.wave*(1+z), ti.flux/(1+z)*igmz] of lines 645-654; eazy tells
\* whether eazy.igm could be imported, IGM being None when it could not
RedshiftedIgm(t, z, eazy) ==
    [wave |-> [k \in DOMAIN t.wave |-> t.wave[k] * (1 + z)],
     flux |-> [k \in DOMAIN t.flux |->
                ((t.flux[k] \div (1 + z))
                    * (IF z > IGM_MINZ /\ eazy
                       THEN FullIGM(z, t.wave[k] * (1 + z)) ELSE 100))
                \div 100]]

\* SpectrumTemplate.zscale(z, scalar=1)
Zscale(t, z, eazy) ==
    [wave |-> [k \in DOMAIN t.wave |-> t.wave[k] * (1 + z)],
     flux |-> [k \in DOMAIN t.flux |->
                ((t.flux[k] \div (1 + z))
                    * (IF eazy THEN FullIGM(z, t.wave[k] * (1 + z)) ELSE 100))
                \div 100]]

\* one template of the loop of lines 641-672 and of the loop of lines
\* 576-579, at a redshift of 0 to 6
CallTemplateAtZ ==
    \E t \in TemplateLibrary, z \in 0..6, eazy \in BOOLEAN :
        /\ ret = Idle
        /\ ret' = [op |-> "template_at_z", t |-> t, z |-> z, eazy |-> eazy,
                   s |-> RedshiftedIgm(t, z, eazy), tz |-> Zscale(t, z, eazy)]
        /\ UNCHANGED <<group, ncalls>>

NextIgm ==
    \/ CallTemplateAtZ
    \/ Resume

SpecIgm == Init /\ [][NextIgm]_vars

(***************************************************************************)
(* xfit_at_z on a Group with a pscale, with or without photometry          *)
(***************************************************************************)
\* pscale coefficients: the scale 2 at every wavelength, and the scale
\* 1 + (wave - 10), 3 and 15 at the wavelengths of an exposure
PscaleInputs == {<<20>>, <<10, 100>>}

\* mb.pscale = scl.x
SetPscale ==
    \E x \in PscaleInputs :
        /\ ret = Idle
        /\ pscale.none
        /\ pscale' = [none |-> FALSE, x |-> x]
        /\ UNCHANGED <<beams, scif, sivarf, weightf, wavef, fit_mask, Nphot,
                       Nmask, DoF, is_spec, photom, mslices, A_bgm, ret, ncalls>>

CallXfitScaled ==
    \E z \in ZValues, templates \in TemplateSets(MaxTemp),
       fit_background \in BOOLEAN, t \in {"lo", "hi"} :
        /\ ret = Idle
        /\ XfitAtZ(z, templates, "nnls", fit_background, 0,
                   [bg |-> "hi", t |-> t], FALSE)
        /\ UNCHANGED ncalls

NextScale ==
    \/ FitSetPhotometry
    \/ SetPscale
    \/ CallXfitScaled
    \/ Resume

SpecScale == Init /\ [][NextScale]_vars

(***************************************************************************)
(* The evaluation loop of xfit_redshift on a Group with photometry, the    *)
(* evaluations made in any order                                           *)
(***************************************************************************)
RaisedLoop == [op |-> "grid_loop", status |-> "raise"]

\* the loop of lines 861-866 over the trial redshifts zs, the evaluations
\* made one after the other in the given order: chi2[i], coeffs[i] and
\* covar[i] are written by index, self.photom_model by every evaluation
\* (line 751)
GridLoop(zs, order, args) ==
    LET out == [i \in DOMAIN zs |->
                   XfitResult(zs[i], args.templates, args.fitter,
                              args.fit_background, 0, args.sol, FALSE)]
    IN  IF \E i \in DOMAIN zs : out[i].status = "raise" THEN RaisedLoop
        ELSE [op |-> "grid_loop", status |-> "ok", zgrid |-> zs,
              order |-> order, args |-> args,
              chi2 |-> [i \in DOMAIN zs |-> out[i].chi2],
              coeffs |-> [i \in DOMAIN zs |-> out[i].coeffs],
              covar |-> [i \in DOMAIN zs |-> out[i].covar],
              photom_model |-> out[order[Len(order)]].photom_model]

\* the orders in which n evaluations can be made
Orders(n) ==
    {p \in [1..n -> 1..n] : \A a, b \in 1..n : a # b => p[a] # p[b]}

\* the grids of trial redshifts
TrialGrids == {<<0, 1>>, <<1, 5>>, <<0, 1, 5>>}

CallGridLoop ==
    \E zs \in TrialGrids, templates \in TemplateSets(MaxTemp),
       fit_background \in BOOLEAN, bg \in {"lo", "hi"}, t \in {"lo", "hi"} :
        \E order \in Orders(Len(zs)) :
            /\ ret = Idle
            /\ ret' = GridLoop(zs, order,
                               [templates |-> templates, fitter |-> "nnls",
                                fit_background |-> fit_background,
                                sol |-> [bg |-> bg, t |-> t]])
            /\ UNCHANGED <<group, ncalls>>

NextOrder ==
    \/ FitSetPhotometry
    \/ CallGridLoop
    \/ Resume

SpecOrder == Init /\ [][NextOrder]_vars

(***************************************************************************)
(* A redshift search on the Group as constructed                           *)
(***************************************************************************)
CallXfitRedshift ==
    \E zin \in ZrInputs, dz1 \in {Dz0, 46}, data \in DataSets,
       chi2_poly \in {10, 29, 60, 120, 500}, zoom \in BOOLEAN,
       prior \in PriorInputs,
       strict \in BOOLEAN :
        /\ ret = Idle
        /\ XfitRedshift(zin, dz1, data, chi2_poly, zoom, prior, strict)
        /\ UNCHANGED ncalls

NextZ ==
    \/ CallXfitRedshift
    \/ Resume

SpecZ == Init /\ [][NextZ]_vars

(***************************************************************************)
(* A redshift search on a fine coarse grid, dz[0] a quarter of Dz0, over   *)
(* data with two chi-squared minima                                        *)
(***************************************************************************)
\* number of points of the fine coarse grid
MaxFine == 13

\* dz[0] = Dz0/4, the step of FineFrom
DzQuarter == 17

\* zr = [0, z] for the z that ends a grid of MaxFine points
FineZr ==
    <<0, (Pow2(MaxFine \div 4) * FineRatio[(MaxFine % 4) + 1]) - 100>>

\* chi-squared curves with two dips: minima at the grid points 0.19 or 0.41
\* and 3.00, 4.64 or 5.72, of equal or nearly equal depth
DoubleDips ==
    {[dip |-> TRUE, c |-> c, floor |-> f, w |-> 40, c2 |-> c2,
      floor2 |-> f + d] :
        c \in {19, 41}, c2 \in {300, 464, 572}, f \in {20, 100}, d \in {0, 4}}

CallXfitRedshiftFine ==
    \E dz1 \in {6, 10}, data \in DoubleDips, chi2_poly \in {10, 60, 500},
       zoom \in BOOLEAN, strict \in BOOLEAN :
        /\ ret = Idle
        /\ XfitRedshift([stars |-> FALSE, zr |-> FineZr, dz0 |-> DzQuarter,
                         one |-> 100, fitter |-> "nnls"],
                        dz1, data, chi2_poly, zoom, NoPrior, strict)
        /\ UNCHANGED ncalls

NextPeaks ==
    \/ CallXfitRedshiftFine
    \/ Resume

SpecPeaks == Init /\ [][NextPeaks]_vars

(***************************************************************************)
(* A redshift search over [0, 0.01), in ten-thousandths: with zr = 0, the  *)
(* stellar fit, or with the same range given as a list                     *)
(***************************************************************************)
\* zr is 0 (stars) or [0, 0.01], dz[0] = 0.0025 or 0.005, any fitter
StarsInputs ==
    {[stars |-> st, zr |-> <<0, 100>>, dz0 |-> d, one |-> 10000,
      fitter |-> f] : st \in BOOLEAN, d \in {25, 50}, f \in Fitters}

\* chi-squared curves over the range: flat, or with a dip at 0.0025 or 0.005
StarsData ==
    {[dip |-> FALSE, c |-> 0, floor |-> 20, w |-> 25]} \cup
    {[dip |-> TRUE, c |-> c, floor |-> f, w |-> 25] :
        c \in {25, 50}, f \in {20, 100}}

CallXfitRedshiftStars ==
    \E zin \in StarsInputs, dz1 \in {5, 10}, data \in StarsData,
       chi2_poly \in {10, 60, 500}, zoom \in BOOLEAN, strict \in BOOLEAN :
        /\ ret = Idle
        /\ XfitRedshift(zin, dz1, data, chi2_poly, zoom, NoPrior, strict)
        /\ UNCHANGED ncalls

NextStars ==
    \/ CallXfitRedshiftStars
    \/ Resume

SpecStars == Init /\ [][NextStars]_vars

(***************************************************************************)
(* _get_slices on Groups of one to MaxBeams exposures of one to MaxSize    *)
(* pixels each, with any fit mask                                          *)
(***************************************************************************)
MaxBeams == 3

MaxSize == 2

\* every list of 1..MaxBeams exposure masks of 1..MaxSize pixels
AllLayouts ==
    {bm \in SeqsUpTo(SeqsUpTo(BOOLEAN, MaxSize), MaxBeams) :
        /\ Len(bm) > 0
        /\ \A i \in DOMAIN bm : Len(bm[i]) > 0}

InitSlices == InitFrom(AllLayouts)

CallGetSlices ==
    \E masked \in BOOLEAN :
        /\ ret = Idle
        /\ ret' = [op |-> "_get_slices", masked |-> masked,
                   slices |-> GetSlices(beams, masked)]
        /\ UNCHANGED <<group, ncalls>>

NextSlices ==
    \/ CallGetSlices
    \/ Resume

SpecSlices == InitSlices /\ [][NextSlices]_vars

(***************************************************************************)
(* A script that masks pixels of the Group and updates the exposures       *)
(***************************************************************************)
\* the caller assigns the spectral part of the Group's fit_mask
AssignFitMask ==
    \E m \in [1..Ntot -> BOOLEAN] :
        /\ ret = Idle
        /\ m # SubSeq(fit_mask, 1, Ntot)
        /\ fit_mask' = m \o SubSeq(fit_mask, Ntot + 1, Len(fit_mask))
        /\ UNCHANGED <<beams, scif, sivarf, weightf, wavef, Nphot, Nmask, DoF,
                       is_spec, photom, mslices, A_bgm, pscale, ret, ncalls>>

\* _update_beam_mask
UpdateBeamMask ==
    LET sl == GetSlices(beams, FALSE)
        updated == [ib \in 1..N |-> [k \in 1..Len(beams[ib]) |->
                       beams[ib][k] /\ fit_mask[sl[ib][1] + k - 1]]]
    IN  /\ beams' = updated
        /\ mslices' = GetSlices(updated, TRUE)
        /\ Nmask' = CountTrue(fit_mask)
        /\ ret' = [op |-> "_update_beam_mask", pre |-> [beams |-> beams]]
        /\ UNCHANGED <<scif, sivarf, weightf, wavef, fit_mask, Nphot, DoF,
                       is_spec, photom, A_bgm, pscale>>

CallUpdateBeamMask ==
    /\ ret = Idle
    /\ UpdateBeamMask
    /\ UNCHANGED ncalls

NextMask ==
    \/ FitSetPhotometry
    \/ AssignFitMask
    \/ CallUpdateBeamMask
    \/ Resume

SpecMask == Init /\ [][NextMask]_vars

(***************************************************************************)
(* utils.parse_visit_overlaps on lists of up to MaxVisits visits           *)
(***************************************************************************)
MaxVisits == 3

\* the visit lists: visit k of a list has the file k, one of two filters
\* (the last part of its product name) and a buffered footprint that is a
\* set of sky cells; two footprints overlap when they share a cell
VisitLists ==
    UNION {[1..n -> [filter : {"f140w", "g141"},
                     footprint : {{1}, {2}, {1, 2}}]] : n \in 0..MaxVisits}

\* the exposure groups, in the order they are appended, with the visits
\* whose files each holds
ParseVisitOverlaps(visits) ==
    LET n == Len(visits)
        RECURSIVE Inner(_, _, _, _, _)
        Inner(i, j, fp, files, used) ==
            IF j > n THEN [footprint |-> fp, files |-> files, used |-> used]
            ELSE IF visits[j].filter # visits[i].filter \/ used[j]
            THEN Inner(i, j + 1, fp, files, used)
            ELSE IF fp \cap visits[j].footprint # {}
            THEN Inner(i, j + 1, fp \cup visits[j].footprint,
                       Append(files, j), [used EXCEPT ![j] = TRUE])
            ELSE Inner(i, j + 1, fp, files, used)
        RECURSIVE Outer(_, _, _)
        Outer(i, used, groups) ==
            IF i > n - 1 THEN groups
            ELSE IF used[i] THEN Outer(i + 1, used, groups)
            ELSE LET r == Inner(i, i + 1, visits[i].footprint, <<i>>, used)
                 IN  Outer(i + 1, r.used,
                           Append(groups, [filter |-> visits[i].filter,
                                           files |-> r.files,
                                           footprint |-> r.footprint]))
    IN  Outer(1, [k \in 1..n |-> FALSE], << >>)

CallParseVisitOverlaps ==
    \E visits \in VisitLists :
        /\ ret = Idle
        /\ ret' = [op |-> "parse_visit_overlaps", visits |-> visits,
                   exposure_groups |-> ParseVisitOverlaps(visits)]
        /\ UNCHANGED <<group, ncalls>>

NextVisits ==
    \/ CallParseVisitOverlaps
    \/ Resume

SpecVisits == Init /\ [][NextVisits]_vars

(***************************************************************************)
(* Claims about set_photometry / unset_photometry (checked under Spec)     *)
(***************************************************************************)
\* number of entries of the photometry currently set (zero when none is)
CurrentPhotEntries == IF Nphot > 0 THEN Len(photom.flam) ELSE 0

\* C5: after any sequence of set_photometry / unset_photometry calls, scif,
\* sivarf, weightf, wavef and fit_mask all have the length Ntot + (number of
\* entries of the photometry currently set).
C5_ArraysSpectralPlusPhot ==
    /\ Len(scif) = Ntot + CurrentPhotEntries
    /\ Len(sivarf) = Ntot + CurrentPhotEntries
    /\ Len(weightf) = Ntot + CurrentPhotEntries
    /\ Len(wavef) = Ntot + CurrentPhotEntries
    /\ Len(fit_mask) = Ntot + CurrentPhotEntries

\* the last call was set_photometry with arrays whose lengths disagree
MismatchedCall ==
    /\ ret.op = "set_photometry"
    /\ (ret.nflam # ret.neflam \/ ret.nflam # ret.nfilt)

\* the last set_photometry call appended nothing and left the stored
\* photometry as it was
NothingAppended ==
    /\ scif = ret.pre.scif
    /\ sivarf = ret.pre.sivarf
    /\ weightf = ret.pre.weightf
    /\ wavef = ret.pre.wavef
    /\ fit_mask = ret.pre.fit_mask
    /\ photom = ret.pre.photom

\* C6: every set_photometry call with mismatched lengths returns False and
\* appends no photometric rows.
C6_MismatchAlwaysFalse ==
    MismatchedCall => (ret.val = "False" /\ NothingAppended)

(***************************************************************************)
(* xfit_at_z: the returned fit                                             *)
(***************************************************************************)
FitReturned == ret.op = "xfit_at_z" /\ ret.status = "ok"

NTemplates == Len(ret.names)

SquareOfSize(m, n) == Len(m) = n /\ \A r \in DOMAIN m : Len(m[r]) = n

\* C1 as stated: coeffs and coeffs_err have length N (counted only if the
\* background is fitted) + N_templates and covar is square of that size
C1_LengthCountsBackgroundIfFitted ==
    FitReturned =>
        LET n == (IF ret.fit_background THEN N ELSE 0) + NTemplates
        IN  /\ Len(ret.coeffs) = n
            /\ Len(ret.coeffs_err) = n
            /\ SquareOfSize(ret.covar, n)

\* C1 amended: coeffs and coeffs_err have length N + N_templates and covar
\* is square of that size, whether or not the background is fitted and
\* however many rows oktemp dropped
C1_LengthAlwaysCountsBackground ==
    FitReturned =>
        /\ Len(ret.coeffs) = N + NTemplates
        /\ Len(ret.coeffs_err) = N + NTemplates
        /\ SquareOfSize(ret.covar, N + NTemplates)

C1_Witness ==
    /\ FitReturned
    /\ ~ret.fit_background
    /\ N = 2
    /\ NTemplates = 2
    /\ \E r \in DOMAIN ret.oktemp : r > N /\ ~ret.oktemp[r]
    /\ Len(ret.coeffs) = 4

\* C4: with nnls every template coefficient is >= 0; with the bounded
\* fitter every background coefficient is within [-0.05, 0.05] and every
\* template not named 'line...' has a coefficient >= 0
C4_CoefficientBounds ==
    FitReturned =>
        /\ ret.fitter = "nnls" =>
              \A r \in DOMAIN ret.coeffs : r > N => ret.coeffs[r][1] >= 0
        /\ ret.fitter = "bounded" =>
              \A r \in DOMAIN ret.coeffs :
                  IF r <= N
                  THEN ret.coeffs[r][1] >= 0 - 5 /\ ret.coeffs[r][1] <= 5
                  ELSE IsLine(ret.names[r - N]) \/ ret.coeffs[r][1] >= 0

\* C7: when the covariance computation fails the fit is returned with its
\* chi2 and coefficients, covar all zero of size N + N_templates and all
\* coefficient uncertainties zero
C7_CovarianceFailureZeroed ==
    (FitReturned /\ ret.covfail) =>
        /\ SquareOfSize(ret.covar, N + NTemplates)
        /\ \A r, q \in DOMAIN ret.covar : ret.covar[r][q][1] = 0
        /\ Len(ret.coeffs_err) = N + NTemplates
        /\ \A r \in DOMAIN ret.coeffs_err : ret.coeffs_err[r][1] = 0
        /\ Len(ret.coeffs) = N + NTemplates
        /\ ret.chi2[2] # 0

C7_Witness ==
    /\ FitReturned
    /\ ret.covfail
    /\ ret.get_uncertainties = 2
    /\ \E r \in DOMAIN ret.coeffs : r > N /\ ret.coeffs[r][1] # 0

RowAllZero(r) == \A c \in DOMAIN ret.A[r] : ret.A[r][c] = 0

\* the solved coefficient of kept row r
SolvedAt(r) == ret.solved[Cardinality({q \in 1..r : ret.oktemp[q]})]

\* C8: a row is dropped exactly when all its entries over the unmasked
\* columns are zero, a dropped row's coefficient is 0, and a kept row's
\* solved coefficient (less the pedestal for a background) is returned at
\* the row's own index
C8_DroppedExactlyWhenAllZero ==
    FitReturned =>
        \A r \in DOMAIN ret.oktemp :
            /\ ~ret.oktemp[r] <=> RowAllZero(r)
            /\ ~ret.oktemp[r] => ret.coeffs[r][1] = 0
            /\ ret.oktemp[r] =>
                  ret.coeffs[r][1] =
                      SolvedAt(r) - (IF r <= N THEN ret.pedestal ELSE 0)

\* C9: the returned chi2 is finite and non-negative; positions outside
\* fit_mask (photometric points with the sentinel or a non-finite inverse
\* uncertainty among them) do not contribute
C9_Chi2FiniteNonNegative ==
    FitReturned => (ret.chi2[2] # 0 /\ ret.chi2[1] >= 0)

C9_Witness ==
    /\ FitReturned
    /\ ret.chi2[1] > 0
    /\ \E p \in DOMAIN sivarf : sivarf[p][2] = 0 /\ ~fit_mask[p]
    /\ Nphot > 0


(***************************************************************************)
(* xfit_redshift: the returned fit table                                   *)
(***************************************************************************)
TableReturned == ret.op = "xfit_redshift" /\ ret.status = "ok"

\* C2: the merged zgrid is strictly increasing, hence free of duplicates
C2_ZgridStrictlyIncreasing ==
    TableReturned =>
        \A i \in 1..(Len(ret.zgrid) - 1) : ret.zgrid[i] < ret.zgrid[i + 1]

\* C3: zgrid, chi2, coeffs and covar have NZ + NZOOM rows each and row i
\* of chi2, coeffs and covar is the evaluation made at zgrid[i]
C3_RowsAlignedWithZgrid ==
    TableReturned =>
        /\ Len(ret.zgrid) = ret.NZ + ret.NZOOM
        /\ Len(ret.chi2) = Len(ret.zgrid)
        /\ Len(ret.coeffs) = Len(ret.zgrid)
        /\ Len(ret.covar) = Len(ret.zgrid)
        /\ \A i \in DOMAIN ret.zgrid :
              /\ ret.chi2[i] = Evaluate(ret.data, ret.zgrid[i]).chi2
              /\ ret.coeffs[i] = Evaluate(ret.data, ret.zgrid[i]).coeffs
              /\ ret.covar[i] = Evaluate(ret.data, ret.zgrid[i]).covar

C3_Witness ==
    /\ TableReturned
    /\ ret.NZ >= 3
    /\ ret.NZOOM >= 5
    /\ \E i \in 1..(Len(ret.chi2) - 1) : ret.chi2[i] # ret.chi2[i + 1]

\* C10: the stored pdf is non-negative at every grid point and its
\* trapezoidal integral over zgrid is 1
C10_PdfNormalised ==
    TableReturned =>
        /\ ret.pdf.den > 0
        /\ \A i \in DOMAIN ret.pdf.num : ret.pdf.num[i] >= 0
        /\ Trapz2(ret.pdf.num, ret.zgrid) = 2 * ret.pdf.den

C10_Witness ==
    /\ TableReturned
    /\ ret.hasprior
    /\ ret.NZOOM > 0
    /\ \E i \in DOMAIN ret.pdf.num : ret.pdf.num[i] = 0
    /\ \E i \in DOMAIN ret.pdf.num : ret.pdf.num[i] > 0 /\ ret.pdf.num[i] # ret.pdf.den

(***************************************************************************)
(* Claims about the posterior analysis (checked under SpecZ)               *)
(***************************************************************************)
\* C11: the stored percentile redshifts are ordered, Z02 <= Z16 <= Z50 <=
\* Z84 <= Z97, so that ZWIDTH1 >= 0 and ZWIDTH2 >= ZWIDTH1, and each lies
\* within [min(zgrid), max(zgrid)]
C11_PercentilesOrdered ==
    TableReturned =>
        LET pz == ret.pz_percentiles
            ZWIDTH1 == pz[4] - pz[2]
            ZWIDTH2 == pz[5] - pz[1]
        IN  /\ \A q \in 1..4 : pz[q] <= pz[q + 1]
            /\ ZWIDTH1 >= 0
            /\ ZWIDTH2 >= ZWIDTH1
            /\ \A q \in 1..5 : /\ SeqMin(ret.zgrid) <= pz[q]
                                /\ pz[q] <= SeqMax(ret.zgrid)

\* a zoomed posterior with a prior whose percentiles are all different
C11_Witness ==
    /\ TableReturned
    /\ ret.NZOOM > 0
    /\ ret.hasprior
    /\ \A q \in 1..4 : ret.pz_percentiles[q] < ret.pz_percentiles[q + 1]

\* the mass away from the redshift of grid point k: the sum of pdf*dz
\* over the grid points at other redshifts
MassAway(k) ==
    LET pm == PdfPermille(ret.pdf)
        dz == Gradient2(ret.zgrid)
    IN  SumSeq([j \in DOMAIN ret.zgrid |->
                   IF ret.zgrid[j] = ret.zgrid[k] THEN 0 ELSE pm[j] * dz[j]])

\* the mass at grid point k outweighs the mass away from it, as seen from
\* every other redshift of the grid
Concentrated(k) ==
    LET pm == PdfPermille(ret.pdf)
        dz == Gradient2(ret.zgrid)
    IN  \A i \in DOMAIN ret.zgrid :
            ret.zgrid[i] # ret.zgrid[k] =>
                100 * MassAway(k) <
                    pm[k] * dz[k] * Loss(ret.zgrid[i] - ret.zgrid[k],
                                         100 + ret.zgrid[k])

\* C12: the stored risk is non-negative at every grid point and so is
\* min_risk; the risk at a grid redshift is at most the posterior mass away
\* from it, so it tends to 0 as the mass concentrates there, and once the
\* mass there outweighs the rest it is the minimum of the risk array
C12_RiskNonNegative ==
    TableReturned =>
        /\ \A i \in DOMAIN ret.risk.risk : ret.risk.risk[i] >= 0
        /\ ret.risk.min_risk >= 0
        /\ \A k \in DOMAIN ret.zgrid :
               /\ ret.risk.risk[k] <= 100 * MassAway(k)
               /\ Concentrated(k) => ret.risk.risk[k] = SeqMin(ret.risk.risk)

\* a table whose posterior is concentrated on an interior grid point,
\* where the risk is positive and smaller than at every other redshift
C12_Witness ==
    /\ TableReturned
    /\ \E k \in 2..(Len(ret.zgrid) - 1) :
           /\ Concentrated(k)
           /\ ret.risk.zi = k
           /\ MassAway(k) > 0
           /\ \A i \in DOMAIN ret.zgrid :
                  ret.zgrid[i] # ret.zgrid[k] => ret.risk.risk[i] > ret.risk.risk[k]

\* the prior interpolated at z is zero
PriorZeroAt(z) == Interp(z, ret.prior.z, ret.prior.p) = 0

\* C13: with a prior the stored pdf is 0 at every grid point where the
\* interpolated prior is 0, the percentiles lie where the prior is not
\* zero and hasprior is True; without a prior hasprior is False and the
\* pdf is the normalised likelihood of chi2 alone
C13_PriorShapesPosterior ==
    TableReturned =>
        /\ ret.hasprior = ret.prior.on
        /\ ret.prior.on =>
               /\ \A i \in DOMAIN ret.zgrid :
                      PriorZeroAt(ret.zgrid[i]) => ret.pdf.num[i] = 0
               /\ \A q \in 1..5 : ~PriorZeroAt(ret.pz_percentiles[q])
        /\ ~ret.prior.on =>
               ret.pdf = Normalise(RawPdf(ret.zgrid, ret.chi2, NoPrior),
                                   ret.zgrid)

(***************************************************************************)
(* Claims about the peaks and the zoom (checked under SpecPeaks)           *)
(***************************************************************************)
\* the chi2 of the coarse grid point i of the returned table
CoarseChi2(i) == Chi2At(ret.data, ret.coarse[i])

\* the interior strict local minima of the coarse chi2 curve
CoarseMinima ==
    {i \in 2..(ret.NZ - 1) : /\ CoarseChi2(i) < CoarseChi2(i - 1)
                             /\ CoarseChi2(i) < CoarseChi2(i + 1)}

\* exactly two minima, more than min_dist grid points apart, with depths
\* that differ by less than 0.6*9, the least span of chi2_rev
TwoSeparatedMinima ==
    /\ DoF > 0
    /\ Cardinality(CoarseMinima) = 2
    /\ \A i, j \in CoarseMinima :
           /\ i < j => j - i > MinDist
           /\ CoarseChi2(i) - CoarseChi2(j) <= 5

\* the returned grid has a point other than the coarse ones within
\* 2*dz[0] of the coarse grid point i
RefinedNear(i) ==
    \E j \in DOMAIN ret.zgrid :
        /\ \A k \in DOMAIN ret.coarse : ret.zgrid[j] # ret.coarse[k]
        /\ ret.zgrid[j] - ret.coarse[i] <= 2 * ret.dz0
        /\ ret.coarse[i] - ret.zgrid[j] <= 2 * ret.dz0

\* C14: for a coarse chi2 curve with two interior minima of similar depth
\* more than 8 grid points apart, the peak indexes are these two minima
\* and, with zoom, the returned grid has refined points within 2*dz[0] of
\* both
C14_TwoPeaksBothRefined ==
    (TableReturned /\ TwoSeparatedMinima) =>
        /\ Len(ret.indexes) = 2
        /\ {ret.indexes[1], ret.indexes[2]} = CoarseMinima
        /\ ret.zoom => \A i \in CoarseMinima : RefinedNear(i)

\* a zoomed table with two separated minima of different depth
C14_Witness ==
    /\ TableReturned
    /\ TwoSeparatedMinima
    /\ ret.zoom
    /\ ret.data.floor # ret.data.floor2
    /\ ret.NZOOM > 0

(***************************************************************************)
(* Claims about the stellar fit (checked under SpecStars)                  *)
(***************************************************************************)
\* a table returned by xfit_redshift called with zr = 0
StarsReturned == TableReturned /\ ret.stars

\* C15: when xfit_redshift is invoked in stellar mode, every grid evaluation
\* uses the nnls solver whatever the fitter argument is, and no zoom
\* evaluation is made whatever the zoom flag and the detected peaks are, so
\* the returned grid is exactly the coarse grid over [0, 0.01).
C15_StarsNnlsNoZoom ==
    StarsReturned =>
        /\ \A i \in DOMAIN ret.calls : ret.calls[i].fitter = "nnls"
        /\ Len(ret.calls) = ret.NZ
        /\ ret.NZOOM = 0
        /\ ret.zgrid = ret.coarse
        /\ ret.coarse = SmallZgrid(<<0, 100>>, ret.dz0)
        /\ \A i \in DOMAIN ret.zgrid :
              ret.zgrid[i] >= 0 /\ ret.zgrid[i] < 100

\* a stellar fit asked for with another fitter and with zoom, whose coarse
\* grid shows a peak
C15_Witness ==
    /\ StarsReturned
    /\ ret.args.fitter = "lstsq"
    /\ ret.zoom
    /\ Len(ret.indexes) > 0
    /\ Len(ret.zgrid) > 2

(***************************************************************************)
(* Claims about _get_slices (checked under SpecSlices)                     *)
(***************************************************************************)
\* _get_slices(masked) has returned
SlicesReturned(masked) == ret.op = "_get_slices" /\ ret.masked = masked

\* the exposures with at least one unmasked pixel
Unmasked == {i \in 1..N : CountTrue(beams[i]) > 0}

\* C16: _get_slices(masked=False) returns one slice per exposure, in exposure
\* order, contiguous, pairwise disjoint and together covering exactly the
\* Ntot pixels, slice i of length beams[i].size; _get_slices(masked=True)
\* returns, for the exposures with at least one unmasked pixel, consecutive
\* disjoint index ranges that cover the Nmask unmasked pixels, range i of
\* length the unmasked pixel count of exposure i.
C16_SlicesPartition ==
    /\ SlicesReturned(FALSE) =>
          /\ Len(ret.slices) = N
          /\ ret.slices[1][1] = 1
          /\ ret.slices[N][2] = Ntot
          /\ \A i \in 1..N :
                ret.slices[i][2] - ret.slices[i][1] + 1 = Len(beams[i])
          /\ \A i \in 1..(N - 1) :
                ret.slices[i + 1][1] = ret.slices[i][2] + 1
          /\ \A p \in 1..Ntot :
                Cardinality({i \in 1..N : /\ ret.slices[i][1] <= p
                                          /\ p <= ret.slices[i][2]}) = 1
    /\ SlicesReturned(TRUE) =>
          /\ Len(ret.slices) = N
          /\ \A i \in 1..N : ret.slices[i].none <=> i \notin Unmasked
          /\ \A i \in Unmasked :
                /\ Len(ret.slices[i].idx) = CountTrue(beams[i])
                /\ \A k \in 1..(Len(ret.slices[i].idx) - 1) :
                      ret.slices[i].idx[k + 1] = ret.slices[i].idx[k] + 1
                /\ \A j \in Unmasked :
                      i < j => ret.slices[i].idx[Len(ret.slices[i].idx)]
                                   < ret.slices[j].idx[1]
          /\ \A p \in 1..CountTrue(Flatten(beams)) :
                Cardinality({i \in Unmasked :
                    \E k \in DOMAIN ret.slices[i].idx :
                        ret.slices[i].idx[k] = p}) = 1
          /\ \A i \in Unmasked : \A k \in DOMAIN ret.slices[i].idx :
                ret.slices[i].idx[k] \in 1..CountTrue(Flatten(beams))

\* masked slices of three exposures of different sizes, the middle one fully
\* masked and the others partly
C16_Witness ==
    /\ SlicesReturned(TRUE)
    /\ N = 3
    /\ Unmasked = {1, 3}
    /\ Len(beams[1]) # Len(beams[2])
    /\ CountTrue(beams[1]) < Len(beams[1])
    /\ Len(ret.slices[3].idx) = 2

(***************************************************************************)
(* Claims about the order of the evaluations (checked under SpecOrder)     *)
(***************************************************************************)
\* the evaluations of the grid, in grid order
InGridOrder(n) == [i \in 1..n |-> i]

\* C17: the per-redshift evaluations of xfit_redshift share no mutable state
\* other than the result arrays written by index: evaluating the same trial
\* redshifts in any order gives the same fit table and leaves the Group in
\* the same final state as evaluating them in grid order.
C17_OrderIndependent ==
    (ret.op = "grid_loop" /\ ret.status = "ok") =>
        [ret EXCEPT !.order = InGridOrder(Len(ret.zgrid))]
            = GridLoop(ret.zgrid, InGridOrder(Len(ret.zgrid)), ret.args)

(***************************************************************************)
(* Claims about the design matrix (checked under SpecFit)                  *)
(***************************************************************************)
\* photometry is set on the Group
PhotometrySet == photom.set /\ Nphot > 0

\* the photometric tail of fit_mask: one entry per photometric measurement
PhotTail == SubSeq(fit_mask, Len(fit_mask) - Len(photom.flam) + 1,
                   Len(fit_mask))

\* C18: whenever photometry is set on the Group, the photometric block built
\* by _interpolate_photometry has N + NTEMP rows and exactly Nphot columns,
\* one per photometric entry that is True in the photometric tail of
\* fit_mask, for every photometry input, entries with uncertainty 0 or
\* negative included.
C18_PhotBlockHasNphotColumns ==
    PhotometrySet =>
        \A z \in ZValues, templates \in TemplateSets(MaxTemp) :
            /\ Len(InterpolatePhotometry(z, templates)) = N + Len(templates)
            /\ \A r \in 1..(N + Len(templates)) :
                  /\ Len(InterpolatePhotometry(z, templates)[r]) = Nphot
                  /\ Len(InterpolatePhotometry(z, templates)[r])
                        = CountTrue(PhotTail)

\* the masked-array positions of the unmasked pixels of exposure i
BeamPositions(i) ==
    IF mslices[i].none THEN {}
    ELSE {mslices[i].idx[k] : k \in DOMAIN mslices[i].idx}

\* C19: when fit_background is set, background row i of the design matrix
\* is 1 exactly on the masked-array positions of the unmasked pixels of
\* exposure i and 0 on every other column, the photometric ones included,
\* and rows of distinct exposures have disjoint supports; the row of an
\* exposure with no unmasked pixel is all zero and that exposure adds no
\* non-zero entry to a template row.  When fit_background is not set, all N
\* background rows are zero.
C19_BackgroundRows ==
    FitReturned =>
        /\ \A i \in 1..N, c \in 1..Nmask :
              ret.A[i][c] = IF ret.fit_background /\ c \in BeamPositions(i)
                            THEN 1 ELSE 0
        /\ \A i, j \in 1..N : \A c \in 1..Nmask :
              (i # j /\ ret.A[i][c] # 0) => ret.A[j][c] = 0
        /\ \A i \in 1..N :
              CountTrue(beams[i]) = 0 =>
                  /\ RowAllZero(i)
                  /\ \A r \in (N + 1)..Len(ret.A) :
                        \A c \in 1..Nmask :
                            ret.A[r][c] # 0 =>
                                \/ c > Nmask - Nphot
                                \/ \E j \in 1..N : c \in BeamPositions(j)

\* the photometric positions of the masked arrays
PhotPositions == {c \in 1..Nmask : Nphot > 0 /\ c > Nmask - Nphot}

\* C20: the pedestal is 0.04 exactly when fit_background is set and the
\* fitter is nnls or lstsq, and 0 otherwise; it is added to the data at the
\* spectral positions only; after solving it is subtracted from exactly the
\* N background coefficients and from no template coefficient, so that nnls
\* background coefficients are >= -0.04, and the background model is 0 on
\* the photometric positions.
C20_PedestalOnBackgroundOnly ==
    FitReturned =>
        /\ ret.pedestal = (IF ret.fit_background
                              /\ ret.fitter \in {"nnls", "lstsq"}
                           THEN 4 ELSE 0)
        /\ \A c \in 1..Nmask :
              ret.data[c] - Compress(scif, fit_mask)[c]
                  = (IF c \in PhotPositions THEN 0 ELSE ret.pedestal)
        /\ \A r \in DOMAIN ret.oktemp :
              ret.oktemp[r] =>
                  SolvedAt(r) - ret.coeffs[r][1]
                      = (IF r <= N THEN ret.pedestal ELSE 0)
        /\ ret.fitter = "nnls" =>
              \A r \in 1..N : ret.coeffs[r][1] >= 0 - 4
        /\ \A c \in PhotPositions : ret.background[c] = 0

(***************************************************************************)
(* Claims about the pscale (checked under SpecScale)                       *)
(***************************************************************************)
\* the place of row r of A among the kept rows
KeptRank(r) == Cardinality({q \in 1..r : ret.oktemp[q]})

\* C21: with a pscale set, every kept template row of the weighted design
\* matrix is the row of A times the scale on the spectral columns and times
\* exactly 1 on the photometric ones, and every kept background row is the
\* row built with no pscale; with no pscale no row is rescaled; whichever
\* rows oktemp dropped and for fit_background true or false.
C21_TemplateRowsScaled ==
    FitReturned =>
        \A r \in DOMAIN ret.oktemp : \A c \in 1..Nmask :
            ret.oktemp[r] =>
                ret.Ax[KeptRank(r)][c] =
                    ret.A[r][c] * (IF pscale.none \/ r <= N
                                      \/ c \in PhotPositions
                                   THEN 1
                                   ELSE ComputeScaleArray(pscale.x,
                                            Compress(wavef, fit_mask)[c]))

\* a fit with a pscale, photometry and the background, where a template row
\* was dropped and a kept one has a spectral entry that the scale changes
\* and a photometric entry
C21_Witness ==
    /\ FitReturned
    /\ ~pscale.none
    /\ ret.fit_background
    /\ Nphot > 0
    /\ \E r \in DOMAIN ret.oktemp : r > N /\ ~ret.oktemp[r]
    /\ \E r \in DOMAIN ret.oktemp :
          /\ r > N
          /\ ret.oktemp[r]
          /\ \E c \in 1..Nmask :
                /\ c \notin PhotPositions
                /\ ret.A[r][c] # 0
                /\ ret.Ax[KeptRank(r)][c] # ret.A[r][c]
          /\ \E c \in PhotPositions : ret.A[r][c] # 0

(***************************************************************************)
(* Claims about the redshifted templates (checked under SpecIgm)           *)
(***************************************************************************)
\* the spectrum of template t at z with wavelengths times (1+z), flux over
\* (1+z) and absorption above the threshold only, when there is a model
ShiftedWithThreshold(t, z, eazy) ==
    [wave |-> [k \in DOMAIN t.wave |-> t.wave[k] * (1 + z)],
     flux |-> [k \in DOMAIN t.flux |->
                IF z > IGM_MINZ /\ eazy
                THEN ((t.flux[k] \div (1 + z))
                         * FullIGM(z, t.wave[k] * (1 + z))) \div 100
                ELSE t.flux[k] \div (1 + z)]]

\* C22: every template contribution at redshift z, in the spectral block
\* and in the photometric block alike, has wavelengths times (1+z) and flux
\* times 1/(1+z), with a transmission factor that is exactly 1 whenever z
\* does not exceed the threshold 4 or no absorption model is available.
C22_IgmAboveThresholdOnly ==
    ret.op = "template_at_z" =>
        /\ ret.s = ShiftedWithThreshold(ret.t, ret.z, ret.eazy)
        /\ ret.tz = ShiftedWithThreshold(ret.t, ret.z, ret.eazy)

(***************************************************************************)
(* Claims about the peak detection and the zoom (checked under SpecZ)      *)
(***************************************************************************)
\* the least coarse chi-squared
CoarseMin == SeqMin([i \in 1..ret.NZ |-> CoarseChi2(i)])

\* C23: for every coarse chi-squared array and every chi2_poly the reversed
\* curve is >= 0 at every grid point, is largest exactly where chi-squared is
\* least, and its maximum is positive: the shift less chi2.min() is 100 when
\* chi2_poly > chi2.min()+100, 16 when chi2_poly < chi2.min()+9, and
\* chi2_poly - chi2.min(), between 9 and 100, otherwise.  ret.chi2_rev is
\* the curve times DoF; the curve itself is finite for DoF > 0.
C23_ReversedCurve ==
    TableReturned =>
        /\ Len(ret.chi2_rev) = ret.NZ
        /\ DoF > 0 =>
              \A i \in 1..ret.NZ :
                  /\ ret.chi2_rev[i] >= 0
                  /\ ret.chi2_rev[i] <= SeqMax(ret.chi2_rev)
                  /\ ret.chi2_rev[i] = SeqMax(ret.chi2_rev)
                        <=> CoarseChi2(i) = CoarseMin
        /\ SeqMax(ret.chi2_rev) > 0
        /\ SeqMax(ret.chi2_rev) =
              (IF ret.chi2_poly > CoarseMin + 100 THEN 100
               ELSE IF ret.chi2_poly < CoarseMin + 9 THEN 16
               ELSE ret.chi2_poly - CoarseMin)
        /\ SeqMax(ret.chi2_rev) >= 9
        /\ SeqMax(ret.chi2_rev) <= 100

\* a curve clipped at some grid point, with chi2_poly at chi2.min() + 9
C23_Witness ==
    /\ TableReturned
    /\ DoF > 0
    /\ ret.chi2_poly = CoarseMin + 9
    /\ \E i \in 1..ret.NZ : CoarseChi2(i) > ret.chi2_poly
    /\ \E i \in 1..ret.NZ : ret.chi2_rev[i] = 0

(***************************************************************************)
(* Claims about the dense grid of the zoom (checked under SpecPeaks)       *)
(***************************************************************************)
\* the detected peaks that are not at the first or last coarse index
InteriorPeaks ==
    {k \in DOMAIN ret.indexes : ret.indexes[k] > 1 /\ ret.indexes[k] < ret.NZ}

\* the vertex of the parabola through the coarse point ix and its neighbours
PeakVertex(ix) ==
    ParabolaVertex(SubSeq(ret.coarse, ix - 1, ix + 1),
                   <<CoarseChi2(ix - 1), CoarseChi2(ix), CoarseChi2(ix + 1)>>)[1]

\* the points from zi - 2*dz[0] up to zi + 2*dz[0] in steps of dz[1]
DensePoints(zi) ==
    {z \in (zi - 2 * ret.dz0)..(zi + 2 * ret.dz0) :
        (z - (zi - 2 * ret.dz0)) % ret.dz1 = 0}

\* how many entries of the sequence equal z
CountOf(z, seq) == Cardinality({i \in DOMAIN seq : seq[i] = z})

\* C24: with zoom, a fit that is not stellar and at least one peak, every
\* peak index ix that is not the first or last coarse index has its parabola
\* vertex zi between zgrid[ix-1] and zgrid[ix+1], the returned grid is the
\* coarse grid together with, for each such peak, the points from
\* zi - 2*dz[0] to zi + 2*dz[0] in steps of dz[1] (nothing for a peak at
\* the first or last index), and every coarse point is kept
C24_ZoomGrid ==
    (TableReturned /\ ret.zoom /\ ~ret.stars /\ Len(ret.indexes) > 0) =>
        /\ \A k \in InteriorPeaks :
              /\ PeakVertex(ret.indexes[k]) >= ret.coarse[ret.indexes[k] - 1]
              /\ PeakVertex(ret.indexes[k]) <= ret.coarse[ret.indexes[k] + 1]
              /\ \A z \in DensePoints(PeakVertex(ret.indexes[k])) :
                    CountOf(z, ret.zgrid) > 0
        /\ \A i \in DOMAIN ret.zgrid :
              CountOf(ret.zgrid[i], ret.zgrid) =
                  CountOf(ret.zgrid[i], ret.coarse) +
                  Cardinality({k \in InteriorPeaks :
                      ret.zgrid[i] \in DensePoints(PeakVertex(ret.indexes[k]))})
        /\ ret.NZOOM =
              Cardinality(InteriorPeaks) * ((4 * ret.dz0) \div ret.dz1 + 1)
        /\ Len(ret.zgrid) = ret.NZ + ret.NZOOM
        /\ \A i \in DOMAIN ret.coarse : CountOf(ret.coarse[i], ret.zgrid) > 0

\* a zoomed table with two peaks, a fine step that does not divide
\* 4*dz[0], and a vertex off the coarse grid
C24_Witness ==
    /\ TableReturned
    /\ ret.zoom
    /\ ~ret.stars
    /\ Cardinality(InteriorPeaks) = 2
    /\ (4 * ret.dz0) % ret.dz1 # 0
    /\ \E k \in InteriorPeaks :
           PeakVertex(ret.indexes[k]) # ret.coarse[ret.indexes[k]]

(***************************************************************************)
(* Claims about z_risk and z_map (checked under SpecZ)                     *)
(***************************************************************************)
\* the reported value v for the discrete optimum at index zi is the grid
\* redshift there at the first or last index, is finite, and lies between
\* the two neighbouring grid redshifts and within the grid
Bracketed(zi, v, finite) ==
    /\ finite
    /\ zi \in {1, Len(ret.zgrid)} => v = ret.zgrid[zi]
    /\ (zi > 1 /\ zi < Len(ret.zgrid)) =>
           /\ v >= ret.zgrid[zi - 1]
           /\ v <= ret.zgrid[zi + 1]
    /\ v >= SeqMin(ret.zgrid)
    /\ v <= SeqMax(ret.zgrid)

\* C25: z_risk (z_map) is the grid redshift at the argmin of risk (argmax
\* of pdf) when that is the first or last index and otherwise the parabola
\* vertex; it is finite and lies between the two neighbouring grid
\* redshifts of the discrete optimum, hence within the grid, for every
\* grid that xfit_redshift returns
C25_ZriskZmapBracketed ==
    TableReturned =>
        /\ ret.risk.risk[ret.risk.zi] = SeqMin(ret.risk.risk)
        /\ ret.pdf.num[ret.map.zi] = SeqMax(ret.pdf.num)
        /\ Bracketed(ret.risk.zi, ret.risk.z_risk, ret.risk.finite)
        /\ Bracketed(ret.map.zi, ret.map.z_map, ret.map.finite)

(***************************************************************************)
(* Claims about the units of the returned fit (checked under SpecFit)      *)
(***************************************************************************)
\* the power of COEFF_SCALE that parameter r carries: 0 for a background,
\* 1 for a template
UnitOf(r) == IF r <= N THEN 0 ELSE 1

\* C26: undoing the template scale constant leaves coefficients,
\* uncertainties and covariance in one unit system: coefficient and
\* uncertainty i are the solved values times s_i, covariance entry (i, j)
\* is the solved entry times s_i*s_j, the background-template cross terms
\* included, and coeffs_err[i]^2 = covar[i][i]
C26_ConsistentUnits ==
    FitReturned =>
        /\ \A r \in DOMAIN ret.coeffs : ret.coeffs[r][2] = UnitOf(r)
        /\ \A r \in DOMAIN ret.coeffs_err : ret.coeffs_err[r][2] = UnitOf(r)
        /\ \A r, q \in DOMAIN ret.covar :
              ret.covar[r][q][1] # 0 =>
                  ret.covar[r][q][2] = UnitOf(r) + UnitOf(q)
        /\ \A r \in DOMAIN ret.covar :
              /\ ret.coeffs_err[r][1] * ret.coeffs_err[r][1] = ret.covar[r][r][1]
              /\ ret.covar[r][r][1] # 0 =>
                    2 * ret.coeffs_err[r][2] = ret.covar[r][r][2]

(***************************************************************************)
(* Claims about the range of the returned grid (checked under SpecZ)       *)
(***************************************************************************)
\* C27: every redshift of the returned zgrid, coarse or dense, is >= 0 and
\* lies within the requested z_range [zr[0], zr[1]], for every z_range with
\* zr[0] >= 0 and wherever the peaks are
C27_ZgridWithinRange ==
    (TableReturned /\ ret.args.zr[1] >= 0) =>
        \A i \in DOMAIN ret.zgrid :
            /\ ret.zgrid[i] >= 0
            /\ ret.zgrid[i] >= ret.args.zr[1]
            /\ ret.zgrid[i] <= ret.args.zr[2]

(***************************************************************************)
(* Claims about a rejected set_photometry call (checked under Spec)        *)
(***************************************************************************)
\* the last call was a set_photometry that returned False
ReturnedFalse == ret.op = "set_photometry" /\ ret.val = "False"

\* C28: a set_photometry call that returns False because of a dimension
\* mismatch leaves the Group as it was before the call: Nphot still 0, no
\* array, mask, Nmask or DoF changed (so that a later call installs
\* photometry without force and a later fit sees no photometry)
C28_RejectedCallLeavesGroup ==
    ReturnedFalse =>
        /\ ret.pre.Nphot = 0 \/ ret.force
        /\ Nphot = ret.pre.Nphot
        /\ ret.pre.Nphot = 0 => Nphot = 0
        /\ NothingAppended
        /\ Nmask = ret.pre.Nmask
        /\ DoF = ret.pre.DoF

(***************************************************************************)
(* Claims about _update_beam_mask (checked under SpecMask)                 *)
(***************************************************************************)
\* the last call was _update_beam_mask
MaskUpdated == ret.op = "_update_beam_mask"

\* the position in the Group arrays of pixel k of exposure ib
GroupPosition(ib, k) == SumSeq([j \in 1..(ib - 1) |-> Len(beams[j])]) + k

\* the number of valid photometric points
ValidPhot == CountTrue(SubSeq(fit_mask, Ntot + 1, Len(fit_mask)))

\* C29: after _update_beam_mask, for any Group mask and any prior beam
\* masks, every beam's fit_mask is a subset of the Group fit_mask on the
\* beam's slice, mslices are those of the updated beam masks, Nmask is the
\* number of unmasked beam pixels plus the number of valid photometric
\* points, and the masked background matrix and the data vector have as
\* many columns as the template rows
C29_UpdateBeamMaskConsistent ==
    MaskUpdated =>
        /\ \A ib \in 1..N : \A k \in 1..Len(beams[ib]) :
              beams[ib][k] =
                  (ret.pre.beams[ib][k] /\ fit_mask[GroupPosition(ib, k)])
        /\ \A ib \in 1..N :
              /\ mslices[ib].none <=> CountTrue(beams[ib]) = 0
              /\ Len(mslices[ib].idx) = CountTrue(beams[ib])
              /\ \A k \in DOMAIN mslices[ib].idx :
                    mslices[ib].idx[k] =
                        SumSeq([j \in 1..(ib - 1) |-> CountTrue(beams[j])]) + k
        /\ Nmask = CountTrue(Flatten(beams)) + ValidPhot
        /\ Len(Compress(scif, fit_mask)) = Nmask
        /\ \A i \in DOMAIN A_bgm : Len(A_bgm[i]) = Nmask - Nphot

(***************************************************************************)
(* Claims about parse_visit_overlaps (checked under SpecVisits)            *)
(***************************************************************************)
VisitsParsed == ret.op = "parse_visit_overlaps"

\* visits a and b have the same filter and overlapping buffered footprints
Overlapping(a, b) ==
    /\ ret.visits[a].filter = ret.visits[b].filter
    /\ ret.visits[a].footprint \cap ret.visits[b].footprint # {}

\* the visits connected to a by overlaps among visits of its filter
RECURSIVE ConnectedTo(_, _)
ConnectedTo(S, k) ==
    IF k = 0 THEN S
    ELSE ConnectedTo(S \cup {b \in DOMAIN ret.visits :
                                \E a \in S : Overlapping(a, b)}, k - 1)

\* the groups that hold the file of visit v
GroupsOf(v) ==
    {g \in DOMAIN ret.exposure_groups :
        \E k \in DOMAIN ret.exposure_groups[g].files :
            ret.exposure_groups[g].files[k] = v}

\* C30: the returned groups partition the input: the files of every input
\* visit are in exactly one group, a visit that overlaps no other visit of
\* its filter is a group of its own (the last visit and the only visit of
\* a list included), and two visits of one group have the same filter and
\* footprints connected by overlaps
C30_GroupsPartitionVisits ==
    VisitsParsed =>
        /\ \A v \in DOMAIN ret.visits :
              /\ Cardinality(GroupsOf(v)) = 1
              /\ \A g \in GroupsOf(v) :
                    Cardinality({k \in DOMAIN ret.exposure_groups[g].files :
                        ret.exposure_groups[g].files[k] = v}) = 1
              /\ (\A b \in DOMAIN ret.visits : b # v => ~Overlapping(v, b)) =>
                    \E g \in GroupsOf(v) : ret.exposure_groups[g].files = <<v>>
        /\ \A g \in DOMAIN ret.exposure_groups :
              \A k, m \in DOMAIN ret.exposure_groups[g].files :
                  LET a == ret.exposure_groups[g].files[k]
                      b == ret.exposure_groups[g].files[m]
                  IN  /\ ret.visits[a].filter = ret.visits[b].filter
                      /\ b \in ConnectedTo({a}, Len(ret.visits))

====
